---- MODULE Spec2Model ----
(***************************************************************************)
(* libjass web renderer: SpanStyles (src/renderers/web/span-styles.ts) and *)
(* AnimationCollection (src/renderers/web/animation-collection.ts).        *)
(*                                                                         *)
(* Representation of JavaScript values                                     *)
(*   - a nullable value (a setter argument, a nullable field) is a tuple:  *)
(*     NULL == <<>> is null, Some(v) == <<v>> is the value v;              *)
(*   - numbers are integers; a number printed with toFixed(3) is held as   *)
(*     the integer number of thousandths that toFixed(3) prints;           *)
(*   - a string built by concatenation is the sequence of its pieces.      *)
(***************************************************************************)
EXTENDS Integers, Sequences, FiniteSets, Bags

VARIABLES
    spanStyles,             \* the fields of the current SpanStyles instance
    fontSizeCache,          \* SpanStyles._fontSizeCache (static)
    fontSizeElement,        \* the measuring <div>: style set, offsetHeight reads
    svgDefsElement,         \* children appended to the SVG <defs> element
    animationStyleElement,  \* text nodes appended to the animation <style>
    out,                    \* what the last setStylesOnSpan call produced
    animationCollection,    \* the fields of the AnimationCollection instance
    clockRate,              \* renderer.clock.rate
    lastCall,               \* the call that was made last, and the attributes
                            \* whose value it changed
    resetStyle,             \* the argument of the last reset call
    calls                   \* number of calls made so far

vars == <<spanStyles, fontSizeCache, fontSizeElement, svgDefsElement,
          animationStyleElement, out, animationCollection, clockRate,
          lastCall, resetStyle, calls>>

----------------------------------------------------------------------------
(* Bounds of the model *)

MaxStyleCalls == 3

MaxAnimations == 2

MaxKeyframes == 3

MaxOutlineCalls == 4

MaxFontCalls == 4

\* The calls of one behaviour of SpecShadow
MaxShadowCalls == 3

\* The calls of one behaviour of SpecTransform
MaxTransformCalls == 4

\* The calls of one behaviour of SpecReset
MaxResetCalls == 4

\* The calls of one behaviour of SpecTimeline
MaxTimelineCalls == 5

\* The calls of one behaviour of SpecFallback
MaxFallbackCalls == 3

\* The calls of one behaviour of SpecWalk
MaxWalkCalls == 2

----------------------------------------------------------------------------
(* JavaScript values *)

NULL == <<>>

Some(v) == <<v>>

\* parts.Color: red, green, blue and the colour's own alpha
White == [red |-> 255, green |-> 255, blue |-> 255, alpha |-> 1]

Black == [red |-> 0, green |-> 0, blue |-> 0, alpha |-> 1]

Red == [red |-> 255, green |-> 0, blue |-> 0, alpha |-> 0]

\* Style: the fields of a Style that SpanStyles reads
StyleA ==
    [italic |-> FALSE, bold |-> "false", underline |-> FALSE, strikeThrough |-> FALSE,
     outlineThickness |-> 0, shadowDepth |-> 0,
     fontName |-> "Arial", fontSize |-> 20, fontScaleX |-> 1, fontScaleY |-> 1,
     letterSpacing |-> 0, rotationZ |-> 0,
     primaryColor |-> White, secondaryColor |-> Red,
     outlineColor |-> Black, shadowColor |-> Black]

StyleB ==
    [italic |-> TRUE, bold |-> "true", underline |-> TRUE, strikeThrough |-> TRUE,
     outlineThickness |-> 2, shadowDepth |-> 1,
     fontName |-> "Times", fontSize |-> 10, fontScaleX |-> 2, fontScaleY |-> 2,
     letterSpacing |-> 1, rotationZ |-> 30,
     primaryColor |-> Red, secondaryColor |-> White,
     outlineColor |-> White, shadowColor |-> Red]

Styles == {StyleA, StyleB}

\* RendererSettings: the two settings SpanStyles reads
SettingsValues == [enableSvg : BOOLEAN, preciseOutlines : BOOLEAN]

----------------------------------------------------------------------------
(* SpanStyles: setters *)

valueOrDefault(newValue, defaultValue) ==
    IF newValue # NULL THEN newValue[1] ELSE defaultValue

set_italic(this, value) ==
    [this EXCEPT !.italic = valueOrDefault(value, this.defaultStyle.italic)]

set_bold(this, value) ==
    [this EXCEPT !.bold = valueOrDefault(value, this.defaultStyle.bold)]

set_underline(this, value) ==
    [this EXCEPT !.underline = valueOrDefault(value, this.defaultStyle.underline)]

set_strikeThrough(this, value) ==
    [this EXCEPT !.strikeThrough = valueOrDefault(value, this.defaultStyle.strikeThrough)]

set_outlineWidth(this, value) ==
    [this EXCEPT !.outlineWidth = valueOrDefault(value, this.defaultStyle.outlineThickness)]

set_outlineHeight_wrongDefault(this, value) ==
    [this EXCEPT !.outlineHeight = valueOrDefault(value, this.defaultStyle.shadowDepth)]

set_outlineHeight(this, value) ==
    [this EXCEPT !.outlineHeight = valueOrDefault(value, this.defaultStyle.outlineThickness)]

set_shadowDepthX(this, value) ==
    [this EXCEPT !.shadowDepthX = valueOrDefault(value, this.defaultStyle.shadowDepth)]

set_shadowDepthY(this, value) ==
    [this EXCEPT !.shadowDepthY = valueOrDefault(value, this.defaultStyle.shadowDepth)]

set_blur(this, value) ==
    [this EXCEPT !.blur = valueOrDefault(value, 0)]

set_gaussianBlur(this, value) ==
    [this EXCEPT !.gaussianBlur = valueOrDefault(value, 0)]

set_fontName(this, value) ==
    [this EXCEPT !.fontName = valueOrDefault(value, this.defaultStyle.fontName)]

set_fontSize(this, value) ==
    [this EXCEPT !.fontSize = valueOrDefault(value, this.defaultStyle.fontSize)]

set_fontScaleX(this, value) ==
    [this EXCEPT !.fontScaleX = valueOrDefault(value, this.defaultStyle.fontScaleX)]

set_fontScaleY(this, value) ==
    [this EXCEPT !.fontScaleY = valueOrDefault(value, this.defaultStyle.fontScaleY)]

set_letterSpacing(this, value) ==
    [this EXCEPT !.letterSpacing = valueOrDefault(value, this.defaultStyle.letterSpacing)]

set_rotationX(this, value) ==
    [this EXCEPT !.rotationX = value]

set_rotationY(this, value) ==
    [this EXCEPT !.rotationY = value]

set_rotationZ(this, value) ==
    [this EXCEPT !.rotationZ = valueOrDefault(value, this.defaultStyle.rotationZ)]

set_skewX(this, value) ==
    [this EXCEPT !.skewX = value]

set_skewY(this, value) ==
    [this EXCEPT !.skewY = value]

set_primaryColor(this, value) ==
    [this EXCEPT !.primaryColor = valueOrDefault(value, this.defaultStyle.primaryColor)]

set_secondaryColor(this, value) ==
    [this EXCEPT !.secondaryColor = valueOrDefault(value, this.defaultStyle.secondaryColor)]

set_outlineColor(this, value) ==
    [this EXCEPT !.outlineColor = valueOrDefault(value, this.defaultStyle.outlineColor)]

set_shadowColor(this, value) ==
    [this EXCEPT !.shadowColor = valueOrDefault(value, this.defaultStyle.shadowColor)]

set_primaryAlpha(this, value) ==
    [this EXCEPT !.primaryAlpha = value]

set_secondaryAlpha(this, value) ==
    [this EXCEPT !.secondaryAlpha = value]

set_outlineAlpha(this, value) ==
    [this EXCEPT !.outlineAlpha = value]

set_shadowAlpha(this, value) ==
    [this EXCEPT !.shadowAlpha = value]

\* The names of the setters, and the setter of each name
SetterNames ==
    {"italic", "bold", "underline", "strikeThrough", "outlineWidth", "outlineHeight",
     "shadowDepthX", "shadowDepthY", "blur", "gaussianBlur", "fontName", "fontSize",
     "fontScaleX", "fontScaleY", "letterSpacing", "rotationX", "rotationY",
     "rotationZ", "skewX", "skewY", "primaryColor", "secondaryColor",
     "outlineColor", "shadowColor", "primaryAlpha", "secondaryAlpha",
     "outlineAlpha", "shadowAlpha"}

set(this, name, value) ==
    CASE name = "italic" -> set_italic(this, value)
      [] name = "bold" -> set_bold(this, value)
      [] name = "underline" -> set_underline(this, value)
      [] name = "strikeThrough" -> set_strikeThrough(this, value)
      [] name = "outlineWidth" -> set_outlineWidth(this, value)
      [] name = "outlineHeight" -> set_outlineHeight(this, value)
      [] name = "shadowDepthX" -> set_shadowDepthX(this, value)
      [] name = "shadowDepthY" -> set_shadowDepthY(this, value)
      [] name = "blur" -> set_blur(this, value)
      [] name = "gaussianBlur" -> set_gaussianBlur(this, value)
      [] name = "fontName" -> set_fontName(this, value)
      [] name = "fontSize" -> set_fontSize(this, value)
      [] name = "fontScaleX" -> set_fontScaleX(this, value)
      [] name = "fontScaleY" -> set_fontScaleY(this, value)
      [] name = "letterSpacing" -> set_letterSpacing(this, value)
      [] name = "rotationX" -> set_rotationX(this, value)
      [] name = "rotationY" -> set_rotationY(this, value)
      [] name = "rotationZ" -> set_rotationZ(this, value)
      [] name = "skewX" -> set_skewX(this, value)
      [] name = "skewY" -> set_skewY(this, value)
      [] name = "primaryColor" -> set_primaryColor(this, value)
      [] name = "secondaryColor" -> set_secondaryColor(this, value)
      [] name = "outlineColor" -> set_outlineColor(this, value)
      [] name = "shadowColor" -> set_shadowColor(this, value)
      [] name = "primaryAlpha" -> set_primaryAlpha(this, value)
      [] name = "secondaryAlpha" -> set_secondaryAlpha(this, value)
      [] name = "outlineAlpha" -> set_outlineAlpha(this, value)
      [] name = "shadowAlpha" -> set_shadowAlpha(this, value)

\* The concrete values the tag-processing layer passes to each setter
SetterValues(name) ==
    CASE name \in {"italic", "underline", "strikeThrough"} -> BOOLEAN
      [] name = "bold" -> {"true", "700"}
      [] name \in {"outlineWidth", "outlineHeight"} -> {0, 1, 2}
      [] name \in {"shadowDepthX", "shadowDepthY"} -> {0, 2}
      [] name = "blur" -> {0, 2}
      [] name = "gaussianBlur" -> {0, 2, 3}
      [] name = "fontName" -> {"Arial", "Times"}
      [] name = "fontSize" -> {10, 20}
      [] name \in {"fontScaleX", "fontScaleY"} -> {1, 2}
      [] name = "letterSpacing" -> {0, 2}
      [] name \in {"rotationX", "rotationY", "rotationZ"} -> {0, 45}
      [] name \in {"skewX", "skewY"} -> {0, 1}
      [] name \in {"primaryColor", "secondaryColor", "outlineColor", "shadowColor"} ->
            {White, Red}
      [] name \in {"primaryAlpha", "secondaryAlpha", "outlineAlpha", "shadowAlpha"} ->
            {0, 1}

----------------------------------------------------------------------------
(* SpanStyles: reset and the constructor *)

\* The assignments of reset, from the style it settled on
resetTo(this, style) ==
    LET s1 == set_italic(this, Some(style.italic))
        s2 == set_bold(s1, Some(style.bold))
        s3 == set_underline(s2, Some(style.underline))
        s4 == set_strikeThrough(s3, Some(style.strikeThrough))
        s5 == set_outlineWidth(s4, Some(style.outlineThickness))
        s6 == set_outlineHeight(s5, Some(style.outlineThickness))
        s7 == set_shadowDepthX(s6, Some(style.shadowDepth))
        s8 == set_shadowDepthY(s7, Some(style.shadowDepth))
        s9 == set_fontName(s8, Some(style.fontName))
        s10 == set_fontSize(s9, Some(style.fontSize))
        s11 == set_fontScaleX(s10, Some(style.fontScaleX))
        s12 == set_fontScaleY(s11, Some(style.fontScaleY))
        s13 == set_letterSpacing(s12, Some(style.letterSpacing))
        s14 == [s13 EXCEPT !.rotationX = NULL, !.rotationY = NULL,
                           !.rotationZ = style.rotationZ,
                           !.skewX = NULL, !.skewY = NULL]
        s15 == set_primaryColor(s14, Some(style.primaryColor))
        s16 == set_secondaryColor(s15, Some(style.secondaryColor))
        s17 == set_outlineColor(s16, Some(style.outlineColor))
        s18 == set_shadowColor(s17, Some(style.shadowColor))
        s19 == set_primaryAlpha(s18, NULL)
        s20 == set_secondaryAlpha(s19, NULL)
        s21 == set_outlineAlpha(s20, NULL)
        s22 == set_shadowAlpha(s21, NULL)
        s23 == set_blur(s22, NULL)
    IN  set_gaussianBlur(s23, NULL)

reset_keepsAlpha(this, newStyle) ==
    [resetTo(this, IF newStyle = NULL THEN this.defaultStyle ELSE newStyle[1])
        EXCEPT !.primaryAlpha = this.primaryAlpha]

reset_replacesDefaultStyle(this, newStyle) ==
    [resetTo(this, IF newStyle = NULL THEN this.defaultStyle ELSE newStyle[1])
        EXCEPT !.defaultStyle = IF newStyle = NULL THEN @ ELSE newStyle[1]]

reset(this, newStyle) ==
    resetTo(this, IF newStyle = NULL THEN this.defaultStyle ELSE newStyle[1])

\* The object before the constructor body runs: the attribute fields are not set
Allocated(id, style, scaleX, scaleY, settings) ==
    [id |-> id, defaultStyle |-> style,
     scaleX |-> scaleX, scaleY |-> scaleY, settings |-> settings,
     nextFilterId |-> 0,
     italic |-> NULL, bold |-> NULL, underline |-> NULL, strikeThrough |-> NULL,
     outlineWidth |-> NULL, outlineHeight |-> NULL,
     shadowDepthX |-> NULL, shadowDepthY |-> NULL,
     fontName |-> NULL, fontSize |-> NULL, fontScaleX |-> NULL, fontScaleY |-> NULL,
     letterSpacing |-> NULL,
     rotationX |-> NULL, rotationY |-> NULL, rotationZ |-> NULL,
     skewX |-> NULL, skewY |-> NULL,
     primaryColor |-> NULL, secondaryColor |-> NULL,
     outlineColor |-> NULL, shadowColor |-> NULL,
     primaryAlpha |-> NULL, secondaryAlpha |-> NULL,
     outlineAlpha |-> NULL, shadowAlpha |-> NULL,
     blur |-> NULL, gaussianBlur |-> NULL]

SpanStyles_new(id, style, scaleX, scaleY, settings) ==
    reset(Allocated(id, style, scaleX, scaleY, settings), NULL)

----------------------------------------------------------------------------
(* Numbers and maps *)

\* The numbers of the program are IEEE-754 binary64 values: a division, a
\* subtraction, a multiplication and Math.sqrt each round their exact result to
\* the nearest such value, and toFixed(3) rounds the value it is handed, not
\* the exact result. The operators below carry this arithmetic out on the
\* non-negative values the model hands them.

\* A natural number of any size is the sequence of its digits to the base
\* Limb, the least significant first and the most significant not 0; the empty
\* sequence is 0. The operations are written digit by digit, without recursion.
Limb == 2^14

big_at(a, i) == IF i >= 1 /\ i <= Len(a) THEN a[i] ELSE 0

big_strip(a) ==
    LET used == {i \in 1..Len(a) : a[i] # 0}
    IN  IF used = {} THEN <<>>
        ELSE SubSeq(a, 1, CHOOSE i \in used : \A j \in used : j <= i)

\* n as a sequence of digits, and back for a value that fits an integer
big(n) == big_strip(<<n % Limb, (n \div Limb) % Limb, n \div (Limb * Limb)>>)

big_value(a) == big_at(a, 1) + Limb * big_at(a, 2) + Limb * Limb * big_at(a, 3)

\* -1, 0 or 1 as a is less than, equal to or greater than b
big_compare(a, b) ==
    LET differ == {i \in 1..(Len(a) + Len(b)) : big_at(a, i) # big_at(b, i)}
        top == CHOOSE i \in differ : \A j \in differ : j <= i
    IN  IF differ = {} THEN 0
        ELSE IF big_at(a, top) < big_at(b, top) THEN -1 ELSE 1

\* a + b: digit i takes a carry when a lower digit overflows and every digit
\* between passes the carry on
big_add(a, b) ==
    LET sum(i) == big_at(a, i) + big_at(b, i)
        carry(i) == IF \E j \in 1..(i - 1) :
                           /\ sum(j) >= Limb
                           /\ \A k \in (j + 1)..(i - 1) : sum(k) = Limb - 1
                    THEN 1 ELSE 0
    IN  big_strip([i \in 1..(Len(a) + Len(b) + 1) |-> (sum(i) + carry(i)) % Limb])

\* a - b for a >= b
big_sub(a, b) ==
    LET borrow(i) == IF \E j \in 1..(i - 1) :
                            /\ big_at(a, j) < big_at(b, j)
                            /\ \A k \in (j + 1)..(i - 1) : big_at(a, k) = big_at(b, k)
                     THEN 1 ELSE 0
    IN  big_strip([i \in 1..Len(a) |->
                      (big_at(a, i) - big_at(b, i) - borrow(i) + Limb) % Limb])

\* a * b for a of at most four digits
big_product(a, b) ==
    LET n == Len(a) + Len(b)
        column(k) == big_at(a, 1) * big_at(b, k) + big_at(a, 2) * big_at(b, k - 1)
                     + big_at(a, 3) * big_at(b, k - 2) + big_at(a, 4) * big_at(b, k - 3)
    IN  big_add(big_add([k \in 1..n |-> column(k) % Limb],
                        [k \in 1..n |-> (column(k - 1) \div Limb) % Limb]),
                [k \in 1..n |-> column(k - 2) \div (Limb * Limb)])

\* a * k for a natural k below 2^16
big_times(a, k) == big_product(big(k), a)

\* a * 2^n
big_shiftLeft(a, n) ==
    LET q == n \div 14
        r == n % 14
    IN  big_strip([i \in 1..(Len(a) + q + 1) |->
                      ((big_at(a, i - q) * 2^r) % Limb)
                      + (big_at(a, i - q - 1) \div 2^(14 - r))])

\* a \div 2^n, and whether a is a multiple of 2^n
big_shiftRight(a, n) ==
    LET q == n \div 14
        r == n % 14
    IN  [quotient |-> big_strip([i \in 1..Len(a) |->
                                    (big_at(a, i + q) \div 2^r)
                                    + ((big_at(a, i + q + 1) % 2^r) * 2^(14 - r))]),
         exact |-> /\ \A i \in 1..q : big_at(a, i) = 0
                   /\ big_at(a, q + 1) % 2^r = 0]

big_odd(a) == big_at(a, 1) % 2 = 1

\* The number of binary digits of a
big_digits(a) ==
    IF a = <<>> THEN 0
    ELSE 14 * (Len(a) - 1)
         + CHOOSE d \in 1..14 : a[Len(a)] < 2^d /\ a[Len(a)] >= 2^(d - 1)

\* The largest q with q * q <= a (d empty) or with q * d <= a, for a q below
\* 2^56, is found binary digit by binary digit from the most significant:
\* q + 2^i is taken when it still satisfies the condition. A step is evaluated
\* before the step after it begins.
big_step(a, d, q, i) ==
    LET next == big_add(q, big_shiftLeft(<<1>>, i))
    IN  IF big_compare(big_product(next, IF d = <<>> THEN next ELSE d), a) <= 0
        THEN next ELSE q

\* The n steps i, i - 1, ..., i - n + 1
RECURSIVE big_steps(_, _, _, _, _)
big_steps(a, d, q, i, n) ==
    IF n = 0 THEN q
    ELSE CHOOSE r \in {big_steps(a, d, next, i - 1, n - 1) :
                          next \in {big_step(a, d, q, i)}} : TRUE

\* The steps i, i - 1, ..., 0, eight at a time
RECURSIVE big_search(_, _, _, _)
big_search(a, d, q, i) ==
    IF i < 0 THEN q
    ELSE CHOOSE r \in {big_search(a, d, next, i - 8) :
                          next \in {big_steps(a, d, q, i, IF i >= 7 THEN 8 ELSE i + 1)}} :
             TRUE

\* The square root of a < 2^108, rounded down
big_sqrt(a) == big_search(a, <<>>, <<>>, 53)

\* a \div d for a quotient below 2^55
big_quotient(a, d) == big_search(a, d, <<>>, 54)

\* A non-negative Number (IEEE-754 binary64) is [m, e] of value m * 2^e with m
\* of 53 binary digits; 0 is [m |-> <<>>, e |-> 0]. Number_round is the
\* rounding every operation ends with: a * 2^e to the nearest Number, a tie to
\* the one with the even m
Number_round(a, e) ==
    LET n == big_digits(a)
        half == big_shiftRight(a, n - 54)
        kept == big_shiftRight(half.quotient, 1).quotient
        up == big_odd(half.quotient) /\ (~ half.exact \/ big_odd(kept))
        r == IF up THEN big_add(kept, <<1>>) ELSE kept
    IN  IF n = 0 THEN [m |-> <<>>, e |-> 0]
        ELSE IF n <= 53 THEN [m |-> big_shiftLeft(a, 53 - n), e |-> e - (53 - n)]
        ELSE IF big_digits(r) = 54
        THEN [m |-> big_shiftRight(r, 1).quotient, e |-> e + (n - 53) + 1]
        ELSE [m |-> r, e |-> e + (n - 53)]

\* Limb^i modulo b
RECURSIVE Limb_power(_, _)
Limb_power(i, b) == IF i = 0 THEN 1 % b ELSE (Limb_power(i - 1, b) * (Limb % b)) % b

\* a / b for naturals a and b, 0 < b < 2^15: the whole part and five digits of
\* the fraction, digit i being Limb * ((a * Limb^(i - 1)) % b) \div b, and
\* whether a remainder is left
Number_divide(a, b) ==
    LET rem(i) == ((a % b) * Limb_power(i, b)) % b
        quotient == [i \in 1..5 |-> (Limb * rem(5 - i)) \div b] \o big(a \div b)
    IN  Number_round(big_add(big_shiftLeft(big_strip(quotient), 1),
                             big(IF rem(5) # 0 THEN 1 ELSE 0)),
                     - 5 * 14 - 1)

\* k * f for a natural k below 2^16
Number_times(k, f) == Number_round(big_times(f.m, k), f.e)

\* 1 - f for f <= 1
Number_oneMinus(f) ==
    IF f.m = <<>> THEN Number_round(<<1>>, 0)
    ELSE Number_round(big_sub(big_shiftLeft(<<1>>, - f.e), f.m), f.e)

\* Math.sqrt(f)
Number_sqrt(f) ==
    LET k == IF (f.e - 54) % 2 = 0 THEN 54 ELSE 55
        a == big_shiftLeft(f.m, k)
        root == big_sqrt(a)
        inexact == big_compare(big_product(root, root), a) # 0
    IN  IF f.m = <<>> THEN f
        ELSE Number_round(big_add(big_shiftLeft(root, 1), big(IF inexact THEN 1 ELSE 0)),
                          (f.e - k) \div 2 - 1)

\* y <= f for a natural y
Number_atLeast(f, y) ==
    IF y = 0 THEN TRUE
    ELSE IF f.m = <<>> THEN FALSE
    ELSE IF f.e >= 0 THEN big_compare(big_shiftLeft(f.m, f.e), big(y)) >= 0
    ELSE big_compare(f.m, big_shiftLeft(big(y), - f.e)) >= 0

\* f.toFixed(3) in thousandths: the integer n with n / 1000 nearest to f, the
\* larger one of two
Number_toFixed3(f) ==
    IF f.m = <<>> THEN 0
    ELSE IF f.e >= 0 THEN big_value(big_shiftLeft(big_times(f.m, 1000), f.e))
    ELSE (big_value(big_shiftRight(big_times(f.m, 1000), - f.e - 1).quotient) + 1) \div 2

\* f + g
Number_plus(f, g) ==
    LET e == IF f.e < g.e THEN f.e ELSE g.e
    IN  IF f.m = <<>> \/ (g.m # <<>> /\ g.e - f.e > 60) THEN g
        ELSE IF g.m = <<>> \/ f.e - g.e > 60 THEN f
        ELSE Number_round(big_add(big_shiftLeft(f.m, f.e - e),
                                  big_shiftLeft(g.m, g.e - e)), e)

\* f - g for f >= g
Number_minus(f, g) ==
    IF g.m = <<>> \/ f.e - g.e > 60 THEN f
    ELSE Number_round(big_sub(big_shiftLeft(f.m, f.e - g.e), g.m), g.e)

\* f * g
Number_product(f, g) ==
    IF f.m = <<>> THEN f
    ELSE IF g.m = <<>> THEN g
    ELSE Number_round(big_product(f.m, g.m), f.e + g.e)

\* f / g for g # 0: 55 or 56 binary digits of the quotient of the two m, the
\* last one saying whether a remainder is left
Number_quotient(f, g) ==
    LET quotients == {<<a, big_quotient(a, g.m)>> : a \in {big_shiftLeft(f.m, 54)}}
        sticky(p) == IF big_compare(big_product(p[2], g.m), p[1]) # 0 THEN 1 ELSE 0
    IN  IF f.m = <<>> THEN f
        ELSE CHOOSE quotient \in
                 {Number_round(big_add(big_shiftLeft(p[2], 1), big(sticky(p))),
                               f.e - g.e - 54 - 1) : p \in quotients} : TRUE

\* f <= g
Number_atMost(f, g) ==
    IF f.m = <<>> THEN TRUE
    ELSE IF g.m = <<>> THEN FALSE
    ELSE IF f.e # g.e THEN f.e < g.e
    ELSE big_compare(f.m, g.m) <= 0

\* An outline dimension or a Gaussian blur is held as an integer, or as the
\* fraction [num, den] of two positive integers, which stands for the Number
\* nearest num / den. A fraction is a bag, which an integer is not.
fraction(v) == IsABag(v)

\* The attributes that are given fractions
FractionNames == {"outlineWidth", "outlineHeight", "gaussianBlur"}

\* x === y for two numbers, each an integer or a fraction: with num and den
\* below 2^15 the two are the same Number exactly when their values are equal
same(x, y) ==
    IF fraction(x) /\ fraction(y) THEN x.num * y.den = y.num * x.den
    ELSE IF fraction(x) THEN x.num = y * x.den
    ELSE IF fraction(y) THEN y.num = x * y.den
    ELSE x = y

\* The Number of a whole number not below 0 or of a fraction
Number_of(v) ==
    IF fraction(v) THEN Number_divide(v.num, v.den) ELSE Number_round(big(v), 0)

\* `${ v }` for a whole number or a fraction of at most three decimal places,
\* as a number of thousandths
printed(v) == IF fraction(v) THEN (1000 * v.num) \div v.den ELSE 1000 * v

\* (k * (num / den)).toFixed(3) for integers k, num and den, as a number of
\* thousandths. The two roundings of the product show in the result only when
\* k * num / den is exactly halfway between two thousandths (3 / 80 = 0.0375
\* is printed as 0.037 and 1 / 16 = 0.0625 as 0.063); elsewhere the result is
\* the exact quotient rounded, the integers being far below 2^53.
toFixed3_scaled(k, num, den) ==
    LET c == IF k < 0 THEN -k ELSE k
        a == IF num < 0 THEN -num ELSE num
        d == IF den < 0 THEN -den ELSE den
        negative == ((k < 0) # (num < 0)) # (den < 0)
        q == IF (2000 * c * a) % (2 * d) = d
             THEN Number_toFixed3(Number_times(c, Number_divide(a, d)))
             ELSE (2000 * c * a + d) \div (2 * d)
    IN  IF negative THEN -q ELSE q

\* (num / den).toFixed(3), as a number of thousandths
toFixed3(num, den) == toFixed3_scaled(1, num, den)

\* utility/map Map: a map is a function from its keys to their values
Map_new == [k \in {} |-> NULL]

Map_has(m, key) == key \in DOMAIN m

Map_set(m, key, value) ==
    [k \in DOMAIN m \cup {key} |-> IF k = key THEN value ELSE m[k]]

\* Color.withAlpha: the colour with the given alpha, or itself when it is null
withAlpha(color, value) ==
    IF value # NULL THEN [color EXCEPT !.alpha = value[1]] ELSE color

----------------------------------------------------------------------------
(* AnimationCollection *)

\* The keyframe times and property maps handed to add. A Keyframe is a time
\* and a map of properties, held as the sequence of its <<name, value>> pairs.
KeyframeTimes == {0, 10, 30}

Keyframe(time) ==
    [time |-> time, properties |-> <<<<"opacity", IF time = 0 THEN "0" ELSE "1">>>>]

TimingFunctions == {"linear"}

Rates == {1, 2, 3}

AnimationCollection_new(rendererId, nextId, rate) ==
    [id |-> <<rendererId, nextId>>, rate |-> rate,
     cssText |-> <<>>, animationStyle |-> <<>>,
     animationDelays |-> Map_new, numAnimations |-> 0]

\* The first loop of add: start is the first keyframe's time, end the last's
add_start(keyframes) ==
    IF keyframes = <<>> THEN NULL ELSE Some(keyframes[1].time)

add_end(keyframes) ==
    IF keyframes = <<>> THEN NULL ELSE Some(keyframes[Len(keyframes)].time)

\* The label of a keyframe's block, in thousandths of a percent
add_percentage_fraction(time, start, end) ==
    IF end - start = 0 THEN toFixed3(1, 1)
    ELSE toFixed3(time - start, end - start)

add_percentage(time, start, end) ==
    IF end - start = 0 THEN toFixed3(100 * 1, 1)
    ELSE toFixed3_scaled(100, time - start, end - start)

\* The second loop of add: one block per keyframe
add_ruleCssText(keyframes) ==
    [i \in 1..Len(keyframes) |->
        [percentage |-> add_percentage(keyframes[i].time,
                                       add_start(keyframes)[1], add_end(keyframes)[1]),
         properties |-> keyframes[i].properties]]

add_animationName_constant(this) == <<"animation", this.id, 0>>

add_animationName(this) == <<"animation", this.id, this.numAnimations>>

\* (end - start) / rate, where null - null is 0
add_duration_unscaled(this, keyframes) ==
    IF keyframes = <<>> THEN toFixed3(0, 1)
    ELSE toFixed3(add_end(keyframes)[1] - add_start(keyframes)[1], 1)

add_duration(this, keyframes) ==
    IF keyframes = <<>> THEN toFixed3(0, this.rate)
    ELSE toFixed3(add_end(keyframes)[1] - add_start(keyframes)[1], this.rate)

add(this, timingFunction, keyframes) ==
    LET ruleCssText == add_ruleCssText(keyframes)
        animationName == add_animationName(this)
        separator == IF this.animationStyle # <<>> THEN <<",">> ELSE <<>>
    IN  [this EXCEPT
            !.numAnimations = @ + 1,
            !.cssText = @ \o <<[rule |-> "@-webkit-keyframes", name |-> animationName,
                                 blocks |-> ruleCssText],
                                [rule |-> "@keyframes", name |-> animationName,
                                 blocks |-> ruleCssText]>>,
            !.animationStyle = @ \o separator \o
                <<[name |-> animationName,
                   duration |-> add_duration(this, keyframes),
                   timingFunction |-> timingFunction]>>,
            !.animationDelays = Map_set(@, animationName, add_start(keyframes))]

----------------------------------------------------------------------------
(* SpanStyles: the font size cache *)

\* The heights the measuring <div> reports (offsetHeight)
OffsetHeights == {12, 23}

\* What _getFontSize leaves in the cache: the inner map of fontFamily holds
\* lineHeight * lineHeight / offsetHeight, a quotient held as [num, den]
getFontSize_cache_overwrite(cache, fontFamily, lineHeight, offsetHeight) ==
    LET inner == IF Map_has(cache, fontFamily) THEN cache[fontFamily] ELSE Map_new
    IN  Map_set(cache, fontFamily,
                Map_set(inner, lineHeight,
                        [num |-> lineHeight * lineHeight, den |-> offsetHeight]))

getFontSize_cache(cache, fontFamily, lineHeight, offsetHeight) ==
    LET existingFontSizeMap ==
            IF Map_has(cache, fontFamily) THEN cache[fontFamily] ELSE Map_new
    IN  IF Map_has(existingFontSizeMap, lineHeight)
        THEN Map_set(cache, fontFamily, existingFontSizeMap)
        ELSE Map_set(cache, fontFamily,
                     Map_set(existingFontSizeMap, lineHeight,
                             [num |-> lineHeight * lineHeight, den |-> offsetHeight]))

\* Whether _getFontSize sets the <div>'s font and reads its offsetHeight
getFontSize_measures(cache, fontFamily, lineHeight) ==
    ~ (Map_has(cache, fontFamily) /\ Map_has(cache[fontFamily], lineHeight))

\* The <div> after _getFontSize
getFontSize_element(element, cache, fontFamily, lineHeight) ==
    IF getFontSize_measures(cache, fontFamily, lineHeight)
    THEN [fontFamily |-> fontFamily, fontSize |-> lineHeight,
          offsetHeightReads |-> Append(element.offsetHeightReads,
                                       <<fontFamily, lineHeight>>)]
    ELSE element

\* The value _getFontSize returns
getFontSize(cache, fontFamily, lineHeight, offsetHeight) ==
    getFontSize_cache(cache, fontFamily, lineHeight, offsetHeight)[fontFamily][lineHeight]

----------------------------------------------------------------------------
(* SpanStyles.setStylesOnSpan: outline geometry *)

\* The largest r in lo..hi with r = 0 or (2r - 1)^2 * a^2 <= n
RECURSIVE nearest(_, _, _, _)
nearest(lo, hi, a, n) ==
    IF lo >= hi THEN lo
    ELSE LET mid == (lo + hi + 1) \div 2
         IN  IF (2 * mid - 1) * (2 * mid - 1) * a * a <= n
             THEN nearest(mid, hi, a, n)
             ELSE nearest(lo, mid - 1, a, n)

\* (b / a * Math.sqrt(a * a - x * x)).toFixed(3), in thousandths
ellipse(a, b, x) ==
    nearest(0, 1000 * b, a, 4 * 1000000 * b * b * (a * a - x * x))

\* The for loop of the walk along the shorter axis (of length a, the other
\* axis of length b): the values the loop variable takes, in order
RECURSIVE walk(_, _, _)
walk(x, a, increment) ==
    IF x <= a THEN <<x>> \o walk(x + increment, a, increment) ELSE <<>>

\* The value of the loop variable when the loop is left
RECURSIVE walk_exit(_, _, _)
walk_exit(x, a, increment) ==
    IF x <= a THEN walk_exit(x + increment, a, increment) ELSE x

increment(this) ==
    IF ~ this.settings.preciseOutlines /\ this.gaussianBlur > 0
    THEN this.gaussianBlur ELSE 1

\* The calls of addOutline in SVG mode, in order: the radius pairs
\* <<x.toFixed(3), y.toFixed(3)>> in thousandths
svgOutlines_noCorner(outlineWidth, outlineHeight, inc) ==
    IF outlineWidth <= outlineHeight
    THEN IF outlineWidth > 0
         THEN LET xs == walk(0, outlineWidth, inc)
              IN  [i \in 1..Len(xs) |->
                      <<1000 * xs[i], ellipse(outlineWidth, outlineHeight, xs[i])>>]
         ELSE <<<<1000 * 0, 1000 * outlineHeight>>>>
    ELSE IF outlineHeight > 0
         THEN LET ys == walk(0, outlineHeight, inc)
              IN  [i \in 1..Len(ys) |->
                      <<ellipse(outlineHeight, outlineWidth, ys[i]), 1000 * ys[i]>>]
         ELSE <<<<1000 * outlineWidth, 1000 * 0>>>>

svgOutlines(outlineWidth, outlineHeight, inc) ==
    IF outlineWidth <= outlineHeight
    THEN IF outlineWidth > 0
         THEN LET xs == walk(0, outlineWidth, inc)
              IN  [i \in 1..Len(xs) |->
                      <<1000 * xs[i], ellipse(outlineWidth, outlineHeight, xs[i])>>]
                  \o (IF walk_exit(0, outlineWidth, inc) # outlineWidth + inc
                      THEN <<<<1000 * outlineWidth, 1000 * 0>>>> ELSE <<>>)
         ELSE <<<<1000 * 0, 1000 * outlineHeight>>>>
    ELSE IF outlineHeight > 0
         THEN LET ys == walk(0, outlineHeight, inc)
              IN  [i \in 1..Len(ys) |->
                      <<ellipse(outlineHeight, outlineWidth, ys[i]), 1000 * ys[i]>>]
                  \o (IF walk_exit(0, outlineHeight, inc) # outlineHeight + inc
                      THEN <<<<1000 * 0, 1000 * outlineHeight>>>> ELSE <<>>)
         ELSE <<<<1000 * outlineWidth, 1000 * 0>>>>

\* The same walk when the outline dimensions and the Gaussian blur are not all
\* whole. Every value is a Number and every operation is rounded, one
\* evaluated before the next one begins.

\* (b / a * Math.sqrt(a * a - x * x)).toFixed(3), in thousandths
Number_ellipse(a, b, x) ==
    Number_toFixed3(
        CHOOSE y \in
            {Number_product(ratio, root) :
                ratio \in {Number_quotient(b, a)},
                root \in {Number_sqrt(difference) :
                    difference \in {Number_minus(Number_product(a, a),
                                                 Number_product(x, x))}}} :
            TRUE)

RECURSIVE Number_walk(_, _, _)
Number_walk(x, a, inc) ==
    IF Number_atMost(x, a)
    THEN <<x>> \o Number_walk(Number_plus(x, inc), a, inc)
    ELSE <<>>

RECURSIVE Number_walk_exit(_, _, _)
Number_walk_exit(x, a, inc) ==
    IF Number_atMost(x, a)
    THEN Number_walk_exit(Number_plus(x, inc), a, inc)
    ELSE x

Number_increment(this) ==
    IF ~ this.settings.preciseOutlines /\ Number_of(this.gaussianBlur).m # <<>>
    THEN Number_of(this.gaussianBlur) ELSE Number_of(1)

Number_svgOutlines(outlineWidth, outlineHeight, inc) ==
    IF Number_atMost(outlineWidth, outlineHeight)
    THEN IF outlineWidth.m # <<>>
         THEN CHOOSE outlines \in
                  {[i \in 1..Len(xs) |->
                       <<Number_toFixed3(xs[i]),
                         Number_ellipse(outlineWidth, outlineHeight, xs[i])>>]
                   \o (IF Number_walk_exit(Number_of(0), outlineWidth, inc)
                              # Number_plus(outlineWidth, inc)
                       THEN <<<<Number_toFixed3(outlineWidth), 1000 * 0>>>>
                       ELSE <<>>) :
                      xs \in {Number_walk(Number_of(0), outlineWidth, inc)}} : TRUE
         ELSE <<<<1000 * 0, Number_toFixed3(outlineHeight)>>>>
    ELSE IF outlineHeight.m # <<>>
         THEN CHOOSE outlines \in
                  {[i \in 1..Len(ys) |->
                       <<Number_ellipse(outlineHeight, outlineWidth, ys[i]),
                         Number_toFixed3(ys[i])>>]
                   \o (IF Number_walk_exit(Number_of(0), outlineHeight, inc)
                              # Number_plus(outlineHeight, inc)
                       THEN <<<<1000 * 0, Number_toFixed3(outlineHeight)>>>>
                       ELSE <<>>) :
                      ys \in {Number_walk(Number_of(0), outlineHeight, inc)}} : TRUE
         ELSE <<<<Number_toFixed3(outlineWidth), 1000 * 0>>>>

\* maxY of the text-shadow fallback at x, for outlineWidth # 0: the Number
\* outlineHeight * Math.sqrt(1 - x * x / (outlineWidth * outlineWidth)), for
\* 0 <= x <= outlineWidth and outlineHeight >= 0. Each operation is evaluated
\* before the next one begins.
shadowColumn_maxY(x, outlineWidth, outlineHeight) ==
    CHOOSE maxY \in
        {Number_times(outlineHeight, root) :
            root \in {Number_sqrt(difference) :
                difference \in {Number_oneMinus(quotient) :
                    quotient \in {Number_divide(x * x, outlineWidth * outlineWidth)}}}} :
        TRUE

\* The largest integer y with y <= maxY at x, for 0 <= x <= outlineWidth, and
\* a negative number when there is none. maxY is outlineHeight when
\* outlineWidth is 0. With a negative outlineHeight maxY is below 0, or -0 at
\* x = outlineWidth, and 0 <= -0. Otherwise the roundings of the four
\* operations decide y <= maxY only for the point (x, y) exactly on the
\* ellipse, y being the exact value of maxY rounded down; at x = 0 the square
\* root is exactly 1 and maxY is outlineHeight, and y = 0 passes.
shadowColumn_top(x, outlineWidth, outlineHeight) ==
    LET edge == outlineHeight * outlineHeight * (outlineWidth * outlineWidth - x * x)
        exact == CHOOSE y \in 0..outlineHeight :
                     /\ y * y * outlineWidth * outlineWidth <= edge
                     /\ edge < (y + 1) * (y + 1) * outlineWidth * outlineWidth
    IN  IF outlineWidth = 0 THEN outlineHeight
        ELSE IF outlineHeight < 0 THEN (IF x = outlineWidth THEN 0 ELSE -1)
        ELSE IF exact = 0 \/ x = 0
                \/ exact * exact * outlineWidth * outlineWidth # edge THEN exact
        ELSE IF Number_atLeast(shadowColumn_maxY(x, outlineWidth, outlineHeight), exact)
        THEN exact
        ELSE exact - 1

\* maxY rounded down at every x of the outer loop, computed before the loops
\* are walked
shadowColumn_tops(outlineWidth, outlineHeight) ==
    [x \in 0..outlineWidth |-> shadowColumn_top(x, outlineWidth, outlineHeight)]

\* The inner loop of the text-shadow fallback at one x: y = 0, 1, ... while
\* y <= maxY, each with its mirror images
RECURSIVE shadowColumn_noMirror(_, _, _)
shadowColumn_noMirror(x, y, top) ==
    IF y <= top
    THEN <<<<x, y>>>> \o shadowColumn_noMirror(x, y + 1, top)
    ELSE <<>>

RECURSIVE shadowColumn(_, _, _)
shadowColumn(x, y, top) ==
    IF y <= top
    THEN <<<<x, y>>>>
         \o (IF x # 0 THEN <<<<-x, y>>>> ELSE <<>>)
         \o (IF y # 0 THEN <<<<x, -y>>>> ELSE <<>>)
         \o (IF x # 0 /\ y # 0 THEN <<<<-x, -y>>>> ELSE <<>>)
         \o shadowColumn(x, y + 1, top)
    ELSE <<>>

\* The outer loop from x on, with maxY rounded down at every x
RECURSIVE shadowRows(_, _, _)
shadowRows(x, outlineWidth, tops) ==
    IF x <= outlineWidth
    THEN shadowColumn(x, 0, tops[x]) \o shadowRows(x + 1, outlineWidth, tops)
    ELSE <<>>

\* The calls of addOutline in the text-shadow fallback, in order: <<x, y>> in px
shadowOutlines(outlineWidth, outlineHeight) ==
    CHOOSE outlines \in {shadowRows(0, outlineWidth, tops) :
                            tops \in {shadowColumn_tops(outlineWidth, outlineHeight)}} :
        TRUE

----------------------------------------------------------------------------
(* SpanStyles.setStylesOnSpan: the pieces of the result *)

\* The argument of _getFontSize
fontSizeArgument(this, isTextOnlySpan) ==
    IF isTextOnlySpan THEN this.fontSize * this.fontScaleY ELSE this.fontSize

\* span.style.font
font(this, cache, isTextOnlySpan, offsetHeight) ==
    LET measured == getFontSize(cache, this.fontName,
                                fontSizeArgument(this, isTextOnlySpan), offsetHeight)
    IN  [fontStyleOrWeight |->
            (IF this.italic THEN <<"italic">> ELSE <<>>)
            \o (IF this.bold = "true" THEN <<"bold">>
                ELSE IF this.bold # "false" THEN <<this.bold>> ELSE <<>>),
         fontSize |-> toFixed3_scaled(this.scaleY, measured.num, measured.den),
         lineHeight |-> toFixed3(this.scaleY * this.fontSize, 1),
         fontName |-> this.fontName]

\* span.style.textDecoration
textDecoration(this) ==
    (IF this.underline THEN <<"underline">> ELSE <<>>)
    \o (IF this.strikeThrough THEN <<"line-through">> ELSE <<>>)

\* The transform string: its functions in order, each with its arguments
transform_rotationXFirst(this, isTextOnlySpan) ==
    (IF isTextOnlySpan
     THEN IF this.fontScaleY # this.fontScaleX
          THEN <<<<"scaleY", toFixed3(this.fontScaleY, this.fontScaleX)>>>> ELSE <<>>
     ELSE (IF this.fontScaleX # 1
           THEN <<<<"scaleX", 1000 * this.fontScaleX>>>> ELSE <<>>)
          \o (IF this.fontScaleY # 1
              THEN <<<<"scaleY", 1000 * this.fontScaleY>>>> ELSE <<>>))
    \o (IF this.rotationX # NULL
        THEN <<<<"rotateX", 1000 * this.rotationX[1]>>>> ELSE <<>>)
    \o (IF this.rotationY # NULL
        THEN <<<<"rotateY", 1000 * this.rotationY[1]>>>> ELSE <<>>)
    \o (IF this.rotationZ # 0
        THEN <<<<"rotateZ", 1000 * (-1 * this.rotationZ)>>>> ELSE <<>>)
    \o (IF this.skewX # NULL \/ this.skewY # NULL
        THEN <<<<"matrix", 1000 * valueOrDefault(this.skewY, 0),
                           1000 * valueOrDefault(this.skewX, 0)>>>>
        ELSE <<>>)

transform(this, isTextOnlySpan) ==
    (IF isTextOnlySpan
     THEN IF this.fontScaleY # this.fontScaleX
          THEN <<<<"scaleY", toFixed3(this.fontScaleY, this.fontScaleX)>>>> ELSE <<>>
     ELSE (IF this.fontScaleX # 1
           THEN <<<<"scaleX", 1000 * this.fontScaleX>>>> ELSE <<>>)
          \o (IF this.fontScaleY # 1
              THEN <<<<"scaleY", 1000 * this.fontScaleY>>>> ELSE <<>>))
    \o (IF this.rotationY # NULL
        THEN <<<<"rotateY", 1000 * this.rotationY[1]>>>> ELSE <<>>)
    \o (IF this.rotationX # NULL
        THEN <<<<"rotateX", 1000 * this.rotationX[1]>>>> ELSE <<>>)
    \o (IF this.rotationZ # 0
        THEN <<<<"rotateZ", 1000 * (-1 * this.rotationZ)>>>> ELSE <<>>)
    \o (IF this.skewX # NULL \/ this.skewY # NULL
        THEN <<<<"matrix", 1000 * valueOrDefault(this.skewY, 0),
                           1000 * valueOrDefault(this.skewX, 0)>>>>
        ELSE <<>>)

\* The scaled outline dimensions
scaledOutlineWidth(this) == this.scaleX * this.outlineWidth

scaledOutlineHeight(this) == this.scaleY * this.outlineHeight

\* Whether an outline dimension or the Gaussian blur is not whole; the scales
\* are whole. The SVG outline is then walked in Numbers; the text-shadow
\* fallback is modelled for whole numbers only.
fractional(this) ==
    fraction(this.outlineWidth) \/ fraction(this.outlineHeight)
        \/ fraction(this.gaussianBlur)

Number_scaledOutlineWidth(this) ==
    Number_product(Number_of(this.scaleX), Number_of(this.outlineWidth))

Number_scaledOutlineHeight(this) ==
    Number_product(Number_of(this.scaleY), Number_of(this.outlineHeight))

\* outlineWidth > 0 || outlineHeight > 0
hasOutline(this) ==
    IF fractional(this)
    THEN Number_scaledOutlineWidth(this).m # <<>>
             \/ Number_scaledOutlineHeight(this).m # <<>>
    ELSE scaledOutlineWidth(this) > 0 \/ scaledOutlineHeight(this) > 0

\* The radius pairs of the feMorphology elements
filterOutlines(this) ==
    IF fractional(this)
    THEN CHOOSE outlines \in
             {Number_svgOutlines(outlineWidth, outlineHeight, inc) :
                 outlineWidth \in {Number_scaledOutlineWidth(this)},
                 outlineHeight \in {Number_scaledOutlineHeight(this)},
                 inc \in {Number_increment(this)}} : TRUE
    ELSE svgOutlines(scaledOutlineWidth(this), scaledOutlineHeight(this),
                     increment(this))

\* filterId; it is assigned in SVG mode only
filterId(this) == <<"svg-filter", this.id, this.nextFilterId>>

\* outlineFilter: empty, or one feMorphology per addOutline call, then the
\* feMerge of them, the feFlood and the feComposite
outlineFilter(this) ==
    IF this.settings.enableSvg /\ hasOutline(this)
    THEN CHOOSE filter \in
             {[i \in 1..Len(outlines) |->
                  [element |-> "feMorphology", radius |-> outlines[i],
                   result |-> i - 1]]
              \o <<[element |-> "feMerge",
                    nodes |-> [i \in 1..Len(outlines) |-> i - 1]],
                   [element |-> "feFlood",
                    floodColor |-> withAlpha(this.outlineColor, this.outlineAlpha)],
                   [element |-> "feComposite"]>> :
                 outlines \in {filterOutlines(this)}} : TRUE
    ELSE <<>>

\* blurFilter: empty, or the feGaussianBlur and one feConvolveMatrix per blur level
blurFilter(this) ==
    IF this.settings.enableSvg
    THEN (IF fraction(this.gaussianBlur) \/ this.gaussianBlur > 0
          THEN <<[element |-> "feGaussianBlur",
                  stdDeviation |-> printed(this.gaussianBlur)]>>
          ELSE <<>>)
         \o [i \in 1..this.blur |-> [element |-> "feConvolveMatrix"]]
    ELSE <<>>

\* span.style.textShadow after the outline stage: set in the fallback only
outlineTextShadow(this) ==
    IF ~ this.settings.enableSvg
       /\ (scaledOutlineWidth(this) > 0 \/ scaledOutlineHeight(this) > 0)
    THEN LET outlines == shadowOutlines(scaledOutlineWidth(this),
                                        scaledOutlineHeight(this))
         IN  [i \in 1..Len(outlines) |->
                 [color |-> withAlpha(this.outlineColor, this.outlineAlpha),
                  x |-> 1000 * outlines[i][1], y |-> 1000 * outlines[i][2],
                  blur |-> toFixed3(this.gaussianBlur, 1)]]
    ELSE <<>>

\* span.style.textShadow after the drop shadow stage
textShadow_onlyDepthX(this) ==
    IF this.shadowDepthX # 0
    THEN Append(outlineTextShadow(this),
                [color |-> withAlpha(this.shadowColor, this.shadowAlpha),
                 x |-> toFixed3(this.shadowDepthX * this.scaleX, this.fontScaleX),
                 y |-> toFixed3(this.shadowDepthY * this.scaleY, this.fontScaleY),
                 blur |-> 0])
    ELSE outlineTextShadow(this)

textShadow(this) ==
    IF this.shadowDepthX # 0 \/ this.shadowDepthY # 0
    THEN Append(outlineTextShadow(this),
                [color |-> withAlpha(this.shadowColor, this.shadowAlpha),
                 x |-> toFixed3(this.shadowDepthX * this.scaleX, this.fontScaleX),
                 y |-> toFixed3(this.shadowDepthY * this.scaleY, this.fontScaleY),
                 blur |-> 0])
    ELSE outlineTextShadow(this)

\* Whether the <filter> element is built and appended to the <defs> element
filterRegistered(this) ==
    outlineFilter(this) # <<>> \/ blurFilter(this) # <<>>

\* The <filter> element
filterElement_sameId(this) ==
    [id |-> <<"svg-filter", this.id, 0>>,
     outlineFilter |-> outlineFilter(this), blurFilter |-> blurFilter(this)]

filterElement(this) ==
    [id |-> filterId(this),
     outlineFilter |-> outlineFilter(this), blurFilter |-> blurFilter(this)]

\* filterWrapperSpan, the element returned
filterWrapperSpan(this) ==
    [filter |-> IF filterRegistered(this) THEN Some(filterElement(this).id) ELSE NULL,
     display |-> IF this.rotationX # Some(0) \/ this.rotationY # Some(0)
                 THEN "inline-block" ELSE ""]

\* The styles of the span and its wrapper when setStylesOnSpan returns
styledSpan(this, cache, isTextOnlySpan, offsetHeight, animations) ==
    [font |-> font(this, cache, isTextOnlySpan, offsetHeight),
     textDecoration |-> textDecoration(this),
     transform |-> transform(this, isTextOnlySpan),
     display |-> IF transform(this, isTextOnlySpan) # <<>> THEN "inline-block" ELSE "",
     letterSpacing |-> toFixed3(this.scaleX * this.letterSpacing, 1),
     color |-> withAlpha(this.primaryColor, this.primaryAlpha),
     textShadow |-> textShadow(this),
     animation |-> animations.animationStyle,
     wrapper |-> filterWrapperSpan(this)]

----------------------------------------------------------------------------
(* Actions: one per call the tag-processing layer or the renderer makes *)

\* A nullable argument over a set of values
Nullable(values) == {NULL} \cup {Some(v) : v \in values}

\* The attributes whose values differ in two states of one SpanStyles
Changed(before, after) ==
    {a \in SetterNames :
        IF a \in FractionNames THEN ~ same(before[a], after[a])
        ELSE before[a] # after[a]}

\* A call of the setter called name
Setter(name, value) ==
    /\ spanStyles' = set(spanStyles, name, value)
    /\ lastCall' = [op |-> "set", name |-> name, value |-> value,
                    changed |-> Changed(spanStyles, spanStyles')]
    /\ calls' = calls + 1
    /\ UNCHANGED <<fontSizeCache, fontSizeElement, svgDefsElement,
                   animationStyleElement, out, animationCollection, clockRate,
                   resetStyle>>

\* reset(newStyle)
Reset(newStyle) ==
    /\ spanStyles' = reset(spanStyles, newStyle)
    /\ lastCall' = [op |-> "reset", name |-> "", value |-> newStyle,
                    changed |-> Changed(spanStyles, spanStyles')]
    /\ resetStyle' = newStyle
    /\ calls' = calls + 1
    /\ UNCHANGED <<fontSizeCache, fontSizeElement, svgDefsElement,
                   animationStyleElement, out, animationCollection, clockRate>>

\* new SpanStyles(...) for the next dialogue, with the same renderer, scale,
\* settings and elements
Construct(style) ==
    /\ spanStyles' = SpanStyles_new(<<spanStyles.id[1], spanStyles.id[2] + 1>>, style,
                                    spanStyles.scaleX, spanStyles.scaleY,
                                    spanStyles.settings)
    /\ lastCall' = [op |-> "new", name |-> "", value |-> Some(style), changed |-> {}]
    /\ resetStyle' = NULL
    /\ calls' = calls + 1
    /\ UNCHANGED <<fontSizeCache, fontSizeElement, svgDefsElement,
                   animationStyleElement, out, animationCollection, clockRate>>

\* setStylesOnSpan(span, animationCollection, animationStyleElement), where the
\* first child of span is a text node or not and the measuring <div> reports
\* offsetHeight when it is read
SetStylesOnSpan_replacesText(isTextOnlySpan, offsetHeight) ==
    LET lineHeight == fontSizeArgument(spanStyles, isTextOnlySpan)
    IN  /\ out' = styledSpan(spanStyles, fontSizeCache, isTextOnlySpan, offsetHeight,
                             animationCollection)
        /\ fontSizeCache' = getFontSize_cache(fontSizeCache, spanStyles.fontName,
                                              lineHeight, offsetHeight)
        /\ fontSizeElement' = getFontSize_element(fontSizeElement, fontSizeCache,
                                                  spanStyles.fontName, lineHeight)
        /\ spanStyles' = [spanStyles EXCEPT !.nextFilterId =
                             IF spanStyles.settings.enableSvg THEN @ + 1 ELSE @]
        /\ svgDefsElement' = IF filterRegistered(spanStyles)
                             THEN Append(svgDefsElement, filterElement(spanStyles))
                             ELSE svgDefsElement
        /\ animationStyleElement' = <<animationCollection.cssText>>
        /\ lastCall' = [op |-> "setStylesOnSpan", name |-> "",
                        value |-> <<isTextOnlySpan, offsetHeight>>, changed |-> {}]
        /\ calls' = calls + 1
        /\ UNCHANGED <<animationCollection, clockRate, resetStyle>>

SetStylesOnSpan(isTextOnlySpan, offsetHeight) ==
    LET lineHeight == fontSizeArgument(spanStyles, isTextOnlySpan)
    IN  /\ out' = styledSpan(spanStyles, fontSizeCache, isTextOnlySpan, offsetHeight,
                             animationCollection)
        /\ fontSizeCache' = getFontSize_cache(fontSizeCache, spanStyles.fontName,
                                              lineHeight, offsetHeight)
        /\ fontSizeElement' = getFontSize_element(fontSizeElement, fontSizeCache,
                                                  spanStyles.fontName, lineHeight)
        /\ spanStyles' = [spanStyles EXCEPT !.nextFilterId =
                             IF spanStyles.settings.enableSvg THEN @ + 1 ELSE @]
        /\ svgDefsElement' = IF filterRegistered(spanStyles)
                             THEN Append(svgDefsElement, filterElement(spanStyles))
                             ELSE svgDefsElement
        /\ animationStyleElement' =
               Append(animationStyleElement, animationCollection.cssText)
        /\ lastCall' = [op |-> "setStylesOnSpan", name |-> "",
                        value |-> <<isTextOnlySpan, offsetHeight>>, changed |-> {}]
        /\ calls' = calls + 1
        /\ UNCHANGED <<animationCollection, clockRate, resetStyle>>

\* animationCollection.add(timingFunction, keyframes)
Add(timingFunction, keyframes) ==
    /\ animationCollection' = add(animationCollection, timingFunction, keyframes)
    /\ lastCall' = [op |-> "add", name |-> timingFunction, value |-> keyframes,
                    changed |-> {}]
    /\ calls' = calls + 1
    /\ UNCHANGED <<spanStyles, fontSizeCache, fontSizeElement, svgDefsElement,
                   animationStyleElement, out, clockRate, resetStyle>>

\* The clock's rate changes
ClockSetRate(rate) ==
    /\ clockRate' = rate
    /\ UNCHANGED <<spanStyles, fontSizeCache, fontSizeElement, svgDefsElement,
                   animationStyleElement, out, animationCollection, lastCall,
                   resetStyle, calls>>

----------------------------------------------------------------------------
(* Specifications *)

\* The state after new SpanStyles(...) and new AnimationCollection(renderer)
Constructed(style, scaleX, scaleY, settings, rate) ==
    /\ spanStyles = SpanStyles_new(<<0, 0>>, style, scaleX, scaleY, settings)
    /\ fontSizeCache = Map_new
    /\ fontSizeElement = [fontFamily |-> NULL, fontSize |-> NULL,
                          offsetHeightReads |-> <<>>]
    /\ svgDefsElement = <<>>
    /\ animationStyleElement = <<>>
    /\ out = NULL
    /\ clockRate = rate
    /\ animationCollection = AnimationCollection_new(0, 0, rate)
    /\ lastCall = [op |-> "new", name |-> "", value |-> Some(style), changed |-> {}]
    /\ resetStyle = NULL
    /\ calls = 0

\* Setters and resets on one SpanStyles. Each setter is called with null or
\* with a value that neither style holds, where the type has one.
OverrideValues(name) ==
    CASE name \in {"italic", "underline", "strikeThrough"} -> {TRUE}
      [] name = "bold" -> {"700"}
      [] name \in {"outlineWidth", "outlineHeight"} -> {1}
      [] name \in {"shadowDepthX", "shadowDepthY"} -> {2}
      [] name = "blur" -> {2}
      [] name = "gaussianBlur" -> {3}
      [] name = "fontName" -> {"Verdana"}
      [] name = "fontSize" -> {15}
      [] name \in {"fontScaleX", "fontScaleY"} -> {3}
      [] name = "letterSpacing" -> {2}
      [] name \in {"rotationX", "rotationY", "rotationZ"} -> {45}
      [] name \in {"skewX", "skewY"} -> {1}
      [] name \in {"primaryColor", "secondaryColor", "outlineColor", "shadowColor"} ->
            {[red |-> 0, green |-> 0, blue |-> 255, alpha |-> 1]}
      [] name \in {"primaryAlpha", "secondaryAlpha", "outlineAlpha", "shadowAlpha"} ->
            {0}

InitStyles ==
    \E style \in Styles :
        Constructed(style, 1, 1, [enableSvg |-> TRUE, preciseOutlines |-> FALSE], 1)

NextStyles ==
    \/ \E name \in SetterNames : \E value \in Nullable(OverrideValues(name)) :
           calls < MaxStyleCalls /\ Setter(name, value)
    \/ \E newStyle \in Nullable(Styles) :
           calls < MaxStyleCalls /\ Reset(newStyle)

SpecStyles == InitStyles /\ [][NextStyles]_vars

\* Animations added to one AnimationCollection while the clock's rate changes.
\* The lists handed to add are ordered by non-decreasing time.
KeyframeLists ==
    {keyframes \in UNION {[1..n -> {Keyframe(t) : t \in KeyframeTimes}] :
                              n \in 0..MaxKeyframes} :
        \A i \in 1..Len(keyframes) - 1 : keyframes[i].time <= keyframes[i + 1].time}

InitAnimations ==
    \E rate \in Rates :
        Constructed(StyleA, 1, 1, [enableSvg |-> TRUE, preciseOutlines |-> FALSE], rate)

NextAnimations ==
    \/ \E timingFunction \in TimingFunctions : \E keyframes \in KeyframeLists :
           animationCollection.numAnimations < MaxAnimations
           /\ Add(timingFunction, keyframes)
    \/ \E rate \in Rates : ClockSetRate(rate)

SpecAnimations == InitAnimations /\ [][NextAnimations]_vars

\* Outline and blur overrides, resets and setStylesOnSpan on one SpanStyles
OutlineSetters == {"outlineWidth", "outlineHeight", "blur", "gaussianBlur"}

InitOutline ==
    \E style \in Styles : \E scaleX \in {1, 2} : \E scaleY \in {1, 2} :
        \E settings \in SettingsValues :
            Constructed(style, scaleX, scaleY, settings, 1)

NextOutline ==
    \/ \E name \in OutlineSetters : \E value \in Nullable(SetterValues(name)) :
           calls < MaxOutlineCalls /\ Setter(name, value)
    \/ \E newStyle \in Nullable(Styles) :
           calls < MaxOutlineCalls /\ Reset(newStyle)
    \/ \E isTextOnlySpan \in {TRUE} : \E offsetHeight \in {23} :
           calls < MaxOutlineCalls /\ SetStylesOnSpan(isTextOnlySpan, offsetHeight)

SpecOutline == InitOutline /\ [][NextOutline]_vars

\* Outline overrides, resets and setStylesOnSpan on one SpanStyles with SVG
\* filters disabled, for outlines of 17 pixels: the quarter circle of radius 17
\* passes through the integer points (8, 15) and (15, 8)
FallbackValues == {0, 17}

InitFallback ==
    \E style \in Styles :
        Constructed(style, 1, 1, [enableSvg |-> FALSE, preciseOutlines |-> FALSE], 1)

NextFallback ==
    \/ \E name \in {"outlineWidth", "outlineHeight"} :
           \E value \in Nullable(FallbackValues) :
               calls < MaxFallbackCalls /\ Setter(name, value)
    \/ \E newStyle \in Nullable(Styles) :
           calls < MaxFallbackCalls /\ Reset(newStyle)
    \/ \E isTextOnlySpan \in {TRUE} : \E offsetHeight \in {23} :
           calls < MaxFallbackCalls /\ SetStylesOnSpan(isTextOnlySpan, offsetHeight)

SpecFallback == InitFallback /\ [][NextFallback]_vars

\* Outline and Gaussian blur overrides and setStylesOnSpan on one SpanStyles
\* with SVG filters enabled, for outlines 1 and 1.8 pixels thick and Gaussian
\* blurs of 0.1 and 0.6: the walk adds the blur up in Numbers
WalkSizes == {[num |-> 1, den |-> 1], [num |-> 18, den |-> 10]}

WalkSteps == {[num |-> 1, den |-> 10], [num |-> 6, den |-> 10]}

WalkStyles == {[StyleB EXCEPT !.outlineThickness = thickness] : thickness \in WalkSizes}

InitWalk ==
    \E style \in WalkStyles : \E preciseOutlines \in BOOLEAN :
        Constructed(style, 1, 1,
                    [enableSvg |-> TRUE, preciseOutlines |-> preciseOutlines], 1)

NextWalk ==
    \/ \E value \in Nullable(WalkSteps) :
           calls < MaxWalkCalls /\ Setter("gaussianBlur", value)
    \/ \E value \in Nullable(WalkSizes) :
           calls < MaxWalkCalls /\ Setter("outlineHeight", value)
    \/ \E isTextOnlySpan \in {TRUE} : \E offsetHeight \in {23} :
           calls < MaxWalkCalls /\ SetStylesOnSpan(isTextOnlySpan, offsetHeight)

SpecWalk == InitWalk /\ [][NextWalk]_vars

\* Font overrides and setStylesOnSpan on successive SpanStyles instances
FontSetters == {"fontName", "fontSize", "fontScaleY"}

InitFont ==
    \E style \in Styles :
        Constructed(style, 1, 1, [enableSvg |-> TRUE, preciseOutlines |-> FALSE], 1)

NextFont ==
    \/ \E name \in FontSetters : \E value \in Nullable(SetterValues(name)) :
           calls < MaxFontCalls /\ Setter(name, value)
    \/ \E style \in Styles :
           calls < MaxFontCalls /\ Construct(style)
    \/ \E isTextOnlySpan \in BOOLEAN : \E offsetHeight \in OffsetHeights :
           calls < MaxFontCalls /\ SetStylesOnSpan(isTextOnlySpan, offsetHeight)

SpecFont == InitFont /\ [][NextFont]_vars

\* Shadow depth and font scale overrides, resets and setStylesOnSpan on one
\* SpanStyles
ShadowSetters == {"shadowDepthX", "shadowDepthY", "fontScaleX", "fontScaleY"}

ShadowSetterValues(name) ==
    IF name \in {"shadowDepthX", "shadowDepthY"} THEN {0, 2, -3} ELSE {1, 3}

InitShadow ==
    \E style \in Styles : \E scaleX \in {1, 2} : \E scaleY \in {1, 2} :
        \E enableSvg \in BOOLEAN :
            Constructed(style, scaleX, scaleY,
                        [enableSvg |-> enableSvg, preciseOutlines |-> FALSE], 1)

NextShadow ==
    \/ \E name \in ShadowSetters : \E value \in Nullable(ShadowSetterValues(name)) :
           calls < MaxShadowCalls /\ Setter(name, value)
    \/ \E newStyle \in Nullable(Styles) :
           calls < MaxShadowCalls /\ Reset(newStyle)
    \/ \E isTextOnlySpan \in BOOLEAN : \E offsetHeight \in {23} :
           calls < MaxShadowCalls /\ SetStylesOnSpan(isTextOnlySpan, offsetHeight)

SpecShadow == InitShadow /\ [][NextShadow]_vars

\* Font scale, rotation and skew overrides, resets and setStylesOnSpan on one
\* SpanStyles
TransformSetters ==
    {"fontScaleX", "fontScaleY", "rotationX", "rotationY", "rotationZ", "skewX", "skewY"}

InitTransform ==
    \E style \in Styles :
        Constructed(style, 1, 1, [enableSvg |-> TRUE, preciseOutlines |-> FALSE], 1)

NextTransform ==
    \/ \E name \in TransformSetters : \E value \in Nullable(SetterValues(name)) :
           calls < MaxTransformCalls /\ Setter(name, value)
    \/ \E newStyle \in Nullable(Styles) :
           calls < MaxTransformCalls /\ Reset(newStyle)
    \/ \E isTextOnlySpan \in BOOLEAN : \E offsetHeight \in {23} :
           calls < MaxTransformCalls /\ SetStylesOnSpan(isTextOnlySpan, offsetHeight)

SpecTransform == InitTransform /\ [][NextTransform]_vars

\* Overrides of one attribute of each kind, resets and setStylesOnSpan on one
\* SpanStyles
ResetSetters == {"outlineWidth", "rotationX", "skewX", "primaryAlpha", "blur"}

InitReset ==
    \E style \in Styles :
        Constructed(style, 1, 1, [enableSvg |-> TRUE, preciseOutlines |-> FALSE], 1)

NextReset ==
    \/ \E name \in ResetSetters : \E value \in Nullable(OverrideValues(name)) :
           calls < MaxResetCalls /\ Setter(name, value)
    \/ \E newStyle \in Nullable(Styles) :
           calls < MaxResetCalls /\ Reset(newStyle)
    \/ \E isTextOnlySpan \in {TRUE} : \E offsetHeight \in {23} :
           calls < MaxResetCalls /\ SetStylesOnSpan(isTextOnlySpan, offsetHeight)

SpecReset == InitReset /\ [][NextReset]_vars

\* Animations added to the AnimationCollection between setStylesOnSpan calls
TimelineKeyframeLists ==
    {<<Keyframe(0)>>, <<Keyframe(0), Keyframe(10)>>, <<Keyframe(10), Keyframe(30)>>}

InitTimeline ==
    Constructed(StyleA, 1, 1, [enableSvg |-> TRUE, preciseOutlines |-> FALSE], 1)

NextTimeline ==
    \/ \E timingFunction \in TimingFunctions : \E keyframes \in TimelineKeyframeLists :
           calls < MaxTimelineCalls /\ Add(timingFunction, keyframes)
    \/ \E isTextOnlySpan \in BOOLEAN : \E offsetHeight \in {23} :
           calls < MaxTimelineCalls /\ SetStylesOnSpan(isTextOnlySpan, offsetHeight)

SpecTimeline == InitTimeline /\ [][NextTimeline]_vars

----------------------------------------------------------------------------
(* Claims about the setters and reset (SpecStyles) *)

\* The attributes that default to the base style, each with the field of the
\* base style it defaults to
BaseField ==
    [italic |-> "italic", bold |-> "bold", underline |-> "underline",
     strikeThrough |-> "strikeThrough",
     outlineWidth |-> "outlineThickness", outlineHeight |-> "outlineThickness",
     shadowDepthX |-> "shadowDepth", shadowDepthY |-> "shadowDepth",
     fontName |-> "fontName", fontSize |-> "fontSize",
     fontScaleX |-> "fontScaleX", fontScaleY |-> "fontScaleY",
     letterSpacing |-> "letterSpacing", rotationZ |-> "rotationZ",
     primaryColor |-> "primaryColor", secondaryColor |-> "secondaryColor",
     outlineColor |-> "outlineColor", shadowColor |-> "shadowColor"]

\* The attributes that are absent unless set
AbsentByDefault ==
    {"rotationX", "rotationY", "skewX", "skewY",
     "primaryAlpha", "secondaryAlpha", "outlineAlpha", "shadowAlpha"}

\* C1: after any sequence of setter and reset calls, the setter of a
\* base-defaulted attribute called with null leaves the attribute equal to the
\* base style's value (outlineThickness for both outline dimensions,
\* shadowDepth for both shadow depths), whatever style the last reset
\* supplied; called with a concrete value it leaves exactly that value.
C1_SetterStoresValueOrBaseValue ==
    (lastCall.op = "set" /\ lastCall.name \in DOMAIN BaseField) =>
        spanStyles[lastCall.name] =
            IF lastCall.value = NULL
            THEN spanStyles.defaultStyle[BaseField[lastCall.name]]
            ELSE lastCall.value[1]

\* C1 witness: the last reset supplied a style other than the base style, and
\* outlineHeight(null) then changed outlineHeight from the reset style's
\* outlineThickness, which outlineWidth still has, to the base style's.
C1_Witness_NullAfterResetToOtherStyle ==
    /\ lastCall.op = "set" /\ lastCall.name = "outlineHeight" /\ lastCall.value = NULL
    /\ lastCall.changed = {"outlineHeight"}
    /\ resetStyle # NULL
    /\ resetStyle[1] # spanStyles.defaultStyle
    /\ resetStyle[1].outlineThickness # spanStyles.defaultStyle.outlineThickness
    /\ spanStyles.outlineHeight = spanStyles.defaultStyle.outlineThickness
    /\ spanStyles.outlineWidth = resetStyle[1].outlineThickness

\* C2: after any sequence of setter and reset calls, reset(null) leaves every
\* base-defaulted attribute at the base style's value, rotation-X/Y, skew-X/Y
\* and the four alpha overrides null, both blurs 0, and the attributes as a
\* whole as the constructor leaves them for the same line.
C2_ResetNullRestoresConstructedState ==
    (lastCall.op = "reset" /\ lastCall.value = NULL) =>
        /\ \A a \in DOMAIN BaseField :
               spanStyles[a] = spanStyles.defaultStyle[BaseField[a]]
        /\ \A a \in AbsentByDefault : spanStyles[a] = NULL
        /\ spanStyles.blur = 0
        /\ spanStyles.gaussianBlur = 0
        /\ [spanStyles EXCEPT !.nextFilterId = 0] =
               SpanStyles_new(spanStyles.id, spanStyles.defaultStyle,
                              spanStyles.scaleX, spanStyles.scaleY,
                              spanStyles.settings)

\* C2 witness: reset(null) undid an override of a base-defaulted attribute and
\* an override of a rotation.
C2_Witness_ResetNullAfterOverrides ==
    /\ lastCall.op = "reset" /\ lastCall.value = NULL
    /\ {"outlineWidth", "rotationX"} \subseteq lastCall.changed

----------------------------------------------------------------------------
(* Claims about AnimationCollection.add (SpecAnimations) *)

\* The name of the animation the i-th add of this collection creates (from 0)
NameOfAdd(i) == <<"animation", animationCollection.id, i>>

\* calls counts the add calls made on the collection
C3_NamesEntriesAndDelays ==
    LET this == animationCollection
    IN  /\ DOMAIN this.animationDelays = {NameOfAdd(i) : i \in 0..calls - 1}
        /\ Cardinality(DOMAIN this.animationDelays) = calls
        /\ Len(this.cssText) = 2 * calls
        /\ \A i \in 1..calls :
               /\ this.cssText[2 * i - 1].name = NameOfAdd(i - 1)
               /\ this.cssText[2 * i].name = NameOfAdd(i - 1)
        /\ Len(this.animationStyle) = IF calls = 0 THEN 0 ELSE 2 * calls - 1
        /\ \A i \in 1..calls : this.animationStyle[2 * i - 1].name = NameOfAdd(i - 1)
        /\ \A i \in 1..calls - 1 : this.animationStyle[2 * i] = ","

C3_EarlierEntriesKept ==
    LET before == animationCollection
        after == animationCollection'
    IN  /\ Len(after.cssText) >= Len(before.cssText)
        /\ SubSeq(after.cssText, 1, Len(before.cssText)) = before.cssText
        /\ Len(after.animationStyle) >= Len(before.animationStyle)
        /\ SubSeq(after.animationStyle, 1, Len(before.animationStyle)) =
               before.animationStyle
        /\ \A name \in DOMAIN before.animationDelays :
               /\ name \in DOMAIN after.animationDelays
               /\ after.animationDelays[name] = before.animationDelays[name]

\* C3: after N add calls on one collection the animations are named
\* animation-<id>-0 .. animation-<id>-(N-1) in call order, pairwise distinct,
\* the animation style has N comma-joined entries in call order and the delay
\* map has N keys; no step removes or changes an entry added earlier.
C3_AddAppendsOneNamedAnimation ==
    [] C3_NamesEntriesAndDelays /\ [][C3_EarlierEntriesKept]_vars

\* C3 witness: a second add, of an animation with another start and another
\* duration than the first, after which both entries and both delays stand.
C3_Witness_TwoAdds ==
    /\ lastCall.op = "add" /\ calls = 2
    /\ animationCollection.animationDelays[NameOfAdd(0)] = Some(10)
    /\ animationCollection.animationDelays[NameOfAdd(1)] = Some(0)
    /\ Len(animationCollection.animationStyle) = 3
    /\ animationCollection.animationStyle[1].duration #
           animationCollection.animationStyle[3].duration

\* The two rules the last add appended (one per vendor prefix)
LastRules ==
    {animationCollection.cssText[Len(animationCollection.cssText) - 1],
     animationCollection.cssText[Len(animationCollection.cssText)]}

Abs(n) == IF n < 0 THEN -n ELSE n

\* C4: add with a non-empty list ordered by time gives one block per keyframe,
\* in list order; when end = start every block is labelled 100%; when
\* end > start each label is 100 * (time - start) / (end - start) to three
\* decimals, the first is 0%, the last 100% and the labels do not decrease.
C4_PercentageLabels ==
    (lastCall.op = "add" /\ lastCall.value # <<>>) =>
        LET keyframes == lastCall.value
            start == keyframes[1].time
            end == keyframes[Len(keyframes)].time
        IN  \A rule \in LastRules :
                /\ Len(rule.blocks) = Len(keyframes)
                /\ \A i \in 1..Len(keyframes) :
                       rule.blocks[i].properties = keyframes[i].properties
                /\ (end = start) =>
                       \A i \in 1..Len(keyframes) : rule.blocks[i].percentage = 100000
                /\ (end > start) =>
                       /\ \A i \in 1..Len(keyframes) :
                              2 * Abs(rule.blocks[i].percentage * (end - start)
                                      - 100000 * (keyframes[i].time - start))
                                  <= end - start
                       /\ rule.blocks[1].percentage = 0
                       /\ rule.blocks[Len(keyframes)].percentage = 100000
                       /\ \A i \in 1..Len(keyframes) - 1 :
                              rule.blocks[i].percentage <= rule.blocks[i + 1].percentage

\* C4 witness: keyframes at 0, 10 and 30 labelled 0%, 33.333% and 100%.
C4_Witness_ThreeKeyframes ==
    /\ lastCall.op = "add" /\ Len(lastCall.value) = 3
    /\ \A rule \in LastRules :
           /\ Len(rule.blocks) = 3
           /\ rule.blocks[1].percentage = 0
           /\ rule.blocks[2].percentage = 33333
           /\ rule.blocks[3].percentage = 100000

\* The entry the last add appended to the animation style
LastEntry == animationCollection.animationStyle[Len(animationCollection.animationStyle)]

C5_DurationAndDelay ==
    (lastCall.op = "add" /\ lastCall.value # <<>>) =>
        LET keyframes == lastCall.value
            start == keyframes[1].time
            end == keyframes[Len(keyframes)].time
            rate == animationCollection.rate
        IN  /\ 2 * Abs(LastEntry.duration * rate - 1000 * (end - start)) <= rate
            /\ (start = 0 /\ end = 10 /\ rate = 2) => LastEntry.duration = 5000
            /\ animationCollection.animationDelays[LastEntry.name] = Some(start)

\* C5: the entry add appends carries the duration (end - start) / rate to three
\* decimals, where rate is the clock's rate when the collection was constructed
\* and not the clock's rate since (times 0 and 10 at rate 2 give 5), and the
\* delay map holds the first keyframe's time under the new name.
C5_DurationUsesConstructionRate ==
    /\ animationCollection.rate = clockRate
    /\ [][animationCollection'.rate = animationCollection.rate]_vars
    /\ [] C5_DurationAndDelay

\* C5 witness: the clock's rate is no longer the rate 2 of construction, and an
\* add of keyframes at 10 and 30 gives the duration 10 and the delay 10.
C5_Witness_RateChangedSince ==
    /\ lastCall.op = "add" /\ Len(lastCall.value) = 2
    /\ animationCollection.rate = 2 /\ clockRate = 3
    /\ LastEntry.duration = 10000
    /\ animationCollection.animationDelays[LastEntry.name] = Some(10)

----------------------------------------------------------------------------
(* Claims about the font size cache (SpecFont) *)

\* The (fontFamily, lineHeight) pairs that have a cached font size
CachedPairs(cache) ==
    UNION {{<<fontFamily, lineHeight>> : lineHeight \in DOMAIN cache[fontFamily]} :
               fontFamily \in DOMAIN cache}

C6_MeasuredOncePerPair ==
    LET reads == fontSizeElement.offsetHeightReads
    IN  /\ \A i \in 1..Len(reads) : \A j \in 1..Len(reads) :
               reads[i] = reads[j] => i = j
        /\ {reads[i] : i \in 1..Len(reads)} = CachedPairs(fontSizeCache)
        /\ \A pair \in CachedPairs(fontSizeCache) :
               /\ fontSizeCache[pair[1]][pair[2]].num = pair[2] * pair[2]
               /\ fontSizeCache[pair[1]][pair[2]].den \in OffsetHeights

C6_CacheAppendOnly ==
    /\ \A pair \in CachedPairs(fontSizeCache) :
           /\ pair \in CachedPairs(fontSizeCache')
           /\ fontSizeCache'[pair[1]][pair[2]] = fontSizeCache[pair[1]][pair[2]]
    /\ (lastCall'.op = "setStylesOnSpan" /\ calls' # calls) =>
           LET pair == <<spanStyles.fontName,
                         IF lastCall'.value[1]
                         THEN spanStyles.fontSize * spanStyles.fontScaleY
                         ELSE spanStyles.fontSize>>
               cached == fontSizeCache'[pair[1]][pair[2]]
           IN  /\ pair \in CachedPairs(fontSizeCache')
               /\ fontSizeElement'.offsetHeightReads =
                      IF pair \in CachedPairs(fontSizeCache)
                      THEN fontSizeElement.offsetHeightReads
                      ELSE Append(fontSizeElement.offsetHeightReads, pair)
               /\ out'.font.fontSize = toFixed3_scaled(spanStyles.scaleY, cached.num, cached.den)
    /\ (lastCall'.op # "setStylesOnSpan" \/ calls' = calls) =>
           /\ fontSizeElement' = fontSizeElement
           /\ fontSizeCache' = fontSizeCache

\* C6: over setStylesOnSpan calls on any number of SpanStyles instances, the
\* measuring element's height is read at most once per pair of font family and
\* size (fontSize * fontScaleY for a text-only span, fontSize otherwise); a
\* cached value size * size / height is never changed or removed, and a later
\* call for the pair uses it whatever height the element would report.
C6_FontSizeCache ==
    [] C6_MeasuredOncePerPair /\ [][C6_CacheAppendOnly]_vars

\* C6 witness: a second instance resolves a pair that the first instance
\* measured, the element would now report another height, and the cached
\* value stands with one read in all.
C6_Witness_SecondInstanceHitsCache ==
    /\ lastCall.op = "setStylesOnSpan"
    /\ spanStyles.id[2] = 1
    /\ Len(animationStyleElement) = 2
    /\ Len(fontSizeElement.offsetHeightReads) = 1
    /\ \E pair \in CachedPairs(fontSizeCache) :
           /\ fontSizeCache[pair[1]][pair[2]].den # lastCall.value[2]
           /\ out.font.fontSize =
                  toFixed3_scaled(spanStyles.scaleY, pair[2] * pair[2],
                                  fontSizeCache[pair[1]][pair[2]].den)

----------------------------------------------------------------------------
(* Claims about the outline and the filter (SpecOutline, SpecWalk) *)

IsMorphology(e) == e.element = "feMorphology"

\* The radius pairs of the dilations in the filter that the last
\* setStylesOnSpan appended to the <defs> element, in order (thousandths)
Dilations ==
    IF out.wrapper.filter = NULL THEN <<>>
    ELSE LET morphologies ==
                 SelectSeq(svgDefsElement[Len(svgDefsElement)].outlineFilter, IsMorphology)
         IN  [i \in 1..Len(morphologies) |-> morphologies[i].radius]

\* The offsets of the outline entries of the text-shadow that the last
\* setStylesOnSpan set, in order (thousandths of a px): every entry but the
\* drop shadow, which comes last when there is one
OutlineShadows ==
    LET n == IF spanStyles.shadowDepthX # 0 \/ spanStyles.shadowDepthY # 0
             THEN Len(out.textShadow) - 1 ELSE Len(out.textShadow)
    IN  [i \in 1..n |-> <<out.textShadow[i].x, out.textShadow[i].y>>]

\* The scaled outline dimensions of the last setStylesOnSpan
W == spanStyles.scaleX * spanStyles.outlineWidth

H == spanStyles.scaleY * spanStyles.outlineHeight

Resolved == lastCall.op = "setStylesOnSpan"

\* C7 as stated: with no outline neither mode produces a dilation or an outline
\* shadow; with width 0 and height H > 0 filter mode produces exactly one
\* dilation and the fallback exactly one outline shadow, at (0, H).
C7_Original_OneEntryInBothModes ==
    Resolved =>
        /\ (W = 0 /\ H = 0) => (Dilations = <<>> /\ OutlineShadows = <<>>)
        /\ (W = 0 /\ H > 0 /\ spanStyles.settings.enableSvg) =>
               Dilations = <<<<0, 1000 * H>>>>
        /\ (W = 0 /\ H > 0 /\ ~ spanStyles.settings.enableSvg) =>
               OutlineShadows = <<<<0, 1000 * H>>>>

\* C7 (amended): with no outline neither mode produces a dilation or an outline
\* shadow; with width 0 and height H > 0 filter mode produces exactly one
\* dilation, at (0, H), and the fallback produces the 2 * H + 1 outline shadows
\* at (0, 0) and (0, y), (0, -y) for y = 1 .. H.
C7_ZeroWidthOutline ==
    Resolved =>
        /\ (W = 0 /\ H = 0) => (Dilations = <<>> /\ OutlineShadows = <<>>)
        /\ (W = 0 /\ H > 0 /\ spanStyles.settings.enableSvg) =>
               (Dilations = <<<<0, 1000 * H>>>> /\ OutlineShadows = <<>>)
        /\ (W = 0 /\ H > 0 /\ ~ spanStyles.settings.enableSvg) =>
               /\ Dilations = <<>>
               /\ Len(OutlineShadows) = 2 * H + 1
               /\ {OutlineShadows[i] : i \in 1..Len(OutlineShadows)} =
                      {<<0, 1000 * y>> : y \in (0 - H)..H}

\* C7 witness: the fallback resolved a style of outline width 0 and height 2
\* into five outline shadows.
C7_Witness_FallbackColumn ==
    /\ Resolved /\ ~ spanStyles.settings.enableSvg
    /\ W = 0 /\ H = 2
    /\ OutlineShadows = <<<<0, 0>>, <<0, 1000>>, <<0, -1000>>, <<0, 2000>>, <<0, -2000>>>>

\* The step of the walk, as C10 states it
Step ==
    IF spanStyles.gaussianBlur > 0 /\ ~ spanStyles.settings.preciseOutlines
    THEN spanStyles.gaussianBlur ELSE 1

FilterMode == Resolved /\ spanStyles.settings.enableSvg

\* C8 as stated: in filter mode with outline width = height = W > 0, for every
\* dilation (x, y) the dilation (y, x) is emitted too.
C8_Original_DilationsSymmetric ==
    (FilterMode /\ W = H /\ W > 0) =>
        \A i \in 1..Len(Dilations) : \E j \in 1..Len(Dilations) :
            Dilations[j] = <<Dilations[i][2], Dilations[i][1]>>

\* C8 (amended): in filter mode with outline width = height = W > 0 the
\* dilations start at (0, W) and end at (W, 0), and every dilation (x, y) has
\* y = sqrt(W * W - x * x) to three decimals; when W is at most the step they
\* are just these two, a list that swapping the axes leaves as it is, and
\* when W is 2 and the step 1 they are (0, 2), (1, 1.732), (2, 0), a list
\* without (1.732, 1).
C8_DilationsOnCircle ==
    (FilterMode /\ W = H /\ W > 0) =>
        /\ Dilations[1] = <<0, 1000 * W>>
        /\ Dilations[Len(Dilations)] = <<1000 * W, 0>>
        /\ \A i \in 1..Len(Dilations) :
               LET x == Dilations[i][1]
                   y == Dilations[i][2]
               IN  /\ x % 1000 = 0
                   /\ y >= 0
                   /\ y > 0 => (2 * y - 1) * (2 * y - 1)
                                   <= 4 * (1000000 * W * W - x * x)
                   /\ 4 * (1000000 * W * W - x * x) < (2 * y + 1) * (2 * y + 1)
        /\ W <= Step => Dilations = <<<<0, 1000 * W>>, <<1000 * W, 0>>>>
        /\ (W = 2 /\ Step = 1) =>
               Dilations = <<<<0, 2000>>, <<1000, 1732>>, <<2000, 0>>>>

\* C8 witness: the walk of a circle of radius 4 in steps of 1, through
\* (1, 3.873) and (3, 2.646).
C8_Witness_RadiusFour ==
    /\ FilterMode /\ W = 4 /\ H = 4 /\ Step = 1
    /\ Dilations = <<<<0, 4000>>, <<1000, 3873>>, <<2000, 3464>>, <<3000, 2646>>,
                     <<4000, 0>>>>

\* The ids of the filters in the <defs> element are pairwise distinct, and the
\* fallback leaves the <defs> element empty
C9_FilterIdsDistinct ==
    /\ \A i \in 1..Len(svgDefsElement) : \A j \in 1..Len(svgDefsElement) :
           svgDefsElement[i].id = svgDefsElement[j].id => i = j
    /\ ~ spanStyles.settings.enableSvg =>
           (svgDefsElement = <<>> /\ (Resolved => out.wrapper.filter = NULL))

\* A setStylesOnSpan step appends one filter exactly when SVG is enabled and
\* the outline or the blur is present, and the wrapper refers to that filter;
\* no other step touches the <defs> element
C9_FilterRegisteredIffContent ==
    IF lastCall'.op = "setStylesOnSpan" /\ calls' # calls
    THEN LET content ==
                 /\ spanStyles.settings.enableSvg
                 /\ \/ spanStyles.scaleX * spanStyles.outlineWidth > 0
                    \/ spanStyles.scaleY * spanStyles.outlineHeight > 0
                    \/ spanStyles.gaussianBlur > 0
                    \/ spanStyles.blur > 0
         IN  /\ content =>
                    /\ Len(svgDefsElement') = Len(svgDefsElement) + 1
                    /\ SubSeq(svgDefsElement', 1, Len(svgDefsElement)) = svgDefsElement
                    /\ out'.wrapper.filter =
                           Some(svgDefsElement'[Len(svgDefsElement')].id)
             /\ ~ content =>
                    /\ svgDefsElement' = svgDefsElement
                    /\ out'.wrapper.filter = NULL
    ELSE svgDefsElement' = svgDefsElement

\* C9: with SVG enabled setStylesOnSpan registers a filter if and only if the
\* scaled outline width or height is > 0 or the Gaussian blur or the blur is
\* > 0, and the wrapper it returns refers to that filter's id; over any
\* setters, resets and setStylesOnSpan calls on one instance the registered
\* ids are pairwise distinct. With SVG disabled no filter is registered.
C9_FilterRegistration ==
    [] C9_FilterIdsDistinct /\ [][C9_FilterRegisteredIffContent]_vars

\* C9 witness: one instance resolved three times, once with neither outline
\* nor blur; the two filters registered have different ids, and the wrapper
\* refers to the second.
C9_Witness_TwoFiltersOfThreeResolves ==
    /\ FilterMode
    /\ spanStyles.nextFilterId = 3
    /\ Len(svgDefsElement) = 2
    /\ svgDefsElement[1].id # svgDefsElement[2].id
    /\ out.wrapper.filter = Some(svgDefsElement[2].id)

\* The exact value of a whole number or of a decimal of at most three places,
\* in thousandths
Exact(v) == IF fraction(v) THEN (1000 * v.num) \div v.den ELSE 1000 * v

\* The scaled outline dimensions and the step of the walk as C10 states them,
\* in thousandths
ExactW == spanStyles.scaleX * Exact(spanStyles.outlineWidth)

ExactH == spanStyles.scaleY * Exact(spanStyles.outlineHeight)

ExactStep ==
    IF Exact(spanStyles.gaussianBlur) > 0 /\ ~ spanStyles.settings.preciseOutlines
    THEN Exact(spanStyles.gaussianBlur) ELSE 1000

\* The dimension of the shorter axis, the width when the two are equal
Shorter == IF ExactW <= ExactH THEN ExactW ELSE ExactH

\* The coordinate of a radius pair on the shorter axis, and on the other axis
OnShorter(pair) == IF ExactW <= ExactH THEN pair[1] ELSE pair[2]

OnOther(pair) == IF ExactW <= ExactH THEN pair[2] ELSE pair[1]

\* C10: in filter mode with both scaled outline dimensions > 0 the dilations
\* are at 0, step, 2 * step, ... on the shorter axis (the width when the two
\* are equal), one for each value not beyond the shorter dimension, where step
\* is the Gaussian blur when it is > 0 and precise outlines are off and 1
\* otherwise; the corner (the shorter dimension, 0 on the other axis) is in the
\* list exactly once, added after the loop if and only if no step value is
\* the shorter dimension.
C10_WalkAlongShorterAxis ==
    (FilterMode /\ ExactW > 0 /\ ExactH > 0) =>
        LET steps == Shorter \div ExactStep + 1
            lands == Shorter % ExactStep = 0
        IN  /\ Len(Dilations) = IF lands THEN steps ELSE steps + 1
            /\ \A i \in 1..steps : OnShorter(Dilations[i]) = (i - 1) * ExactStep
            /\ Cardinality({i \in 1..Len(Dilations) :
                               /\ OnShorter(Dilations[i]) = Shorter
                               /\ OnOther(Dilations[i]) = 0}) = 1
            /\ OnShorter(Dilations[Len(Dilations)]) = Shorter
            /\ OnOther(Dilations[Len(Dilations)]) = 0

----------------------------------------------------------------------------
(* Claims about the text-shadow, the wrapper and the transform (SpecFallback,
   SpecShadow, SpecTransform) *)

\* The integer points (x, y) of the quarter ellipse of C11: x in 0 .. W and
\* y in 0 .. maxY(x), where maxY(x) is H when W = 0 and H * sqrt(1 - x^2 / W^2)
\* otherwise
QuarterPoints ==
    {point \in (0..W) \X (0..H) :
        \/ W = 0
        \/ point[2] * point[2] * W * W <= H * H * (W * W - point[1] * point[1])}

\* C11: in the fallback with scaled outline width W and height H not both 0,
\* the outline shadows are at (x, y), (-x, y), (x, -y), (-x, -y) for every
\* integer point (x, y) of the quarter ellipse; no offset is in the list
\* twice, and every offset has |x| <= W and |y| <= H.
C11_FallbackShadowOffsets ==
    (Resolved /\ ~ spanStyles.settings.enableSvg /\ (W > 0 \/ H > 0)) =>
        /\ {OutlineShadows[i] : i \in 1..Len(OutlineShadows)} =
               {<<1000 * sx * point[1], 1000 * sy * point[2]>> :
                    sx \in {-1, 1}, sy \in {-1, 1}, point \in QuarterPoints}
        /\ \A i \in 1..Len(OutlineShadows) : \A j \in 1..Len(OutlineShadows) :
               OutlineShadows[i] = OutlineShadows[j] => i = j
        /\ \A i \in 1..Len(OutlineShadows) :
               /\ Abs(OutlineShadows[i][1]) <= 1000 * W
               /\ Abs(OutlineShadows[i][2]) <= 1000 * H

\* The number of outline shadows the fallback sets: the mirrored points of
\* the quarter ellipse
OutlineShadowCount ==
    IF ~ spanStyles.settings.enableSvg /\ (W > 0 \/ H > 0)
    THEN Cardinality({<<sx * point[1], sy * point[2]>> :
                         sx \in {-1, 1}, sy \in {-1, 1}, point \in QuarterPoints})
    ELSE 0

\* C12: setStylesOnSpan adds a drop shadow to the text-shadow if and only if
\* shadowDepthX or shadowDepthY is not 0; it is one entry, at
\* (shadowDepthX * scaleX / fontScaleX, shadowDepthY * scaleY / fontScaleY) to
\* three decimals with blur 0, and the last of the list, after the outline
\* shadows of the fallback; with SVG enabled it is the only entry.
C12_DropShadowEntry ==
    Resolved =>
        LET this == spanStyles
            present == this.shadowDepthX # 0 \/ this.shadowDepthY # 0
            last == out.textShadow[Len(out.textShadow)]
        IN  /\ Len(out.textShadow) = OutlineShadowCount + (IF present THEN 1 ELSE 0)
            /\ present =>
                   /\ 2 * Abs(last.x * this.fontScaleX
                              - 1000 * this.shadowDepthX * this.scaleX)
                          <= this.fontScaleX
                   /\ 2 * Abs(last.y * this.fontScaleY
                              - 1000 * this.shadowDepthY * this.scaleY)
                          <= this.fontScaleY
                   /\ last.blur = 0
            /\ (this.settings.enableSvg /\ present) => Len(out.textShadow) = 1
            /\ (this.settings.enableSvg /\ ~ present) => out.textShadow = <<>>

\* C12 witness: the fallback resolved an outline of 2 by 2 and a shadow depth
\* of 2 by 1 at font scale 3 by 2: the drop shadow at (0.667, 0.5) is the
\* fourteenth entry, after thirteen outline shadows.
C12_Witness_DropShadowAfterOutline ==
    /\ Resolved /\ ~ spanStyles.settings.enableSvg
    /\ spanStyles.shadowDepthX = 2 /\ spanStyles.shadowDepthY = 1
    /\ spanStyles.scaleX = 1 /\ spanStyles.scaleY = 1
    /\ spanStyles.fontScaleX = 3 /\ spanStyles.fontScaleY = 2
    /\ OutlineShadowCount = 13
    /\ Len(out.textShadow) = 14
    /\ out.textShadow[14].x = 667
    /\ out.textShadow[14].y = 500
    /\ out.textShadow[14].blur = 0

\* C13: the wrapper setStylesOnSpan returns has the display inline-block if
\* and only if rotationX or rotationY is not null; with both null, as after
\* construction or reset, its display is not set.
C13_WrapperInlineBlockIffRotationPresent ==
    Resolved =>
        /\ (out.wrapper.display = "inline-block") <=>
               (spanStyles.rotationX # NULL \/ spanStyles.rotationY # NULL)
        /\ (spanStyles.rotationX = NULL /\ spanStyles.rotationY = NULL) =>
               out.wrapper.display = ""

\* The place of a transform function in the order of C14
Rank(name) ==
    CASE name = "scaleX" -> 1
      [] name = "scaleY" -> 2
      [] name = "rotateY" -> 3
      [] name = "rotateX" -> 4
      [] name = "rotateZ" -> 5
      [] name = "matrix" -> 6

\* Whether the transform of the last setStylesOnSpan has the function, and
\* the function with its arguments
Has(name) == \E i \in 1..Len(out.transform) : out.transform[i][1] = name

Function(name) ==
    out.transform[CHOOSE i \in 1..Len(out.transform) : out.transform[i][1] = name]

\* C14: the transform lists scale, rotateY, rotateX, rotateZ and the skew
\* matrix in this order, each under its condition: for a text-only span
\* scaleY(fontScaleY / fontScaleX) when the two differ, otherwise scaleX and
\* scaleY when not 1; rotateY and rotateX when not null; rotateZ of the
\* negated angle when it is not 0; the matrix when skewX or skewY is not null,
\* a null one taken as 0. The span's display is inline-block if and only if
\* the transform is not empty.
C14_TransformOrderAndConditions ==
    Resolved =>
        LET this == spanStyles
            isTextOnlySpan == lastCall.value[1]
        IN  /\ \A i \in 1..Len(out.transform) - 1 :
                   Rank(out.transform[i][1]) < Rank(out.transform[i + 1][1])
            /\ isTextOnlySpan =>
                   /\ ~ Has("scaleX")
                   /\ Has("scaleY") <=> this.fontScaleY # this.fontScaleX
                   /\ Has("scaleY") =>
                          2 * Abs(Function("scaleY")[2] * this.fontScaleX
                                  - 1000 * this.fontScaleY) <= this.fontScaleX
            /\ ~ isTextOnlySpan =>
                   /\ Has("scaleX") <=> this.fontScaleX # 1
                   /\ Has("scaleX") =>
                          Function("scaleX") = <<"scaleX", 1000 * this.fontScaleX>>
                   /\ Has("scaleY") <=> this.fontScaleY # 1
                   /\ Has("scaleY") =>
                          Function("scaleY") = <<"scaleY", 1000 * this.fontScaleY>>
            /\ Has("rotateY") <=> this.rotationY # NULL
            /\ Has("rotateY") =>
                   Function("rotateY") = <<"rotateY", 1000 * this.rotationY[1]>>
            /\ Has("rotateX") <=> this.rotationX # NULL
            /\ Has("rotateX") =>
                   Function("rotateX") = <<"rotateX", 1000 * this.rotationX[1]>>
            /\ Has("rotateZ") <=> this.rotationZ # 0
            /\ Has("rotateZ") =>
                   Function("rotateZ") = <<"rotateZ", 0 - 1000 * this.rotationZ>>
            /\ Has("matrix") <=> (this.skewX # NULL \/ this.skewY # NULL)
            /\ Has("matrix") =>
                   Function("matrix") =
                       <<"matrix",
                         IF this.skewY = NULL THEN 0 ELSE 1000 * this.skewY[1],
                         IF this.skewX = NULL THEN 0 ELSE 1000 * this.skewX[1]>>
            /\ (out.display = "inline-block") <=> (out.transform # <<>>)
            /\ out.display \in {"inline-block", ""}

\* C14 witness: a span that is not text only, with all six functions: both
\* scales, both rotations set since the last reset, rotateZ and a matrix with
\* skewY taken as 0.
C14_Witness_AllComponents ==
    /\ Resolved /\ ~ lastCall.value[1]
    /\ Len(out.transform) = 6
    /\ spanStyles.skewY = NULL
    /\ out.transform[6] = <<"matrix", 0, 1000>>
    /\ out.transform[5] = <<"rotateZ", -30000>>
    /\ out.display = "inline-block"

----------------------------------------------------------------------------
(* Claims about reset(newStyle) (SpecReset) *)

C15_ResetStep ==
    (lastCall'.op = "reset" /\ calls' # calls /\ lastCall'.value # NULL) =>
        LET newStyle == lastCall'.value[1]
        IN  /\ \A a \in DOMAIN BaseField : spanStyles'[a] = newStyle[BaseField[a]]
            /\ spanStyles'.outlineWidth = newStyle.outlineThickness
            /\ spanStyles'.outlineHeight = newStyle.outlineThickness
            /\ spanStyles'.shadowDepthX = newStyle.shadowDepth
            /\ spanStyles'.shadowDepthY = newStyle.shadowDepth
            /\ spanStyles'.rotationZ = newStyle.rotationZ
            /\ \A a \in AbsentByDefault : spanStyles'[a] = NULL
            /\ spanStyles'.blur = 0
            /\ spanStyles'.gaussianBlur = 0
            /\ spanStyles'.defaultStyle = spanStyles.defaultStyle
            /\ spanStyles'.nextFilterId = spanStyles.nextFilterId
            /\ spanStyles'.id = spanStyles.id
            /\ spanStyles'.scaleX = spanStyles.scaleX
            /\ spanStyles'.scaleY = spanStyles.scaleY
            /\ spanStyles'.settings = spanStyles.settings
            /\ svgDefsElement' = svgDefsElement
            /\ fontSizeCache' = fontSizeCache
            /\ fontSizeElement' = fontSizeElement
            /\ animationStyleElement' = animationStyleElement
            /\ animationCollection' = animationCollection
            /\ out' = out

\* C15: after any setter calls, reset(newStyle) with a style leaves every
\* base-defaulted attribute at newStyle's field (outline width and height at
\* outlineThickness, both shadow depths at shadowDepth, rotationZ at
\* rotationZ), rotationX/Y, skewX/Y and the four alphas null and both blurs 0
\* whatever they were, and changes nothing else: not the default style, the
\* filter id counter, the filters in the <defs> element, the font size cache
\* or the styles set on earlier spans.
C15_ResetToStyleFrame == [][C15_ResetStep]_vars

\* C15 witness: reset to a style other than the default style cleared a
\* rotationX that had been set and took the new style's outline width, with
\* a filter registered, the counter advanced and a font size cached before.
C15_Witness_ResetAfterResolve ==
    /\ lastCall.op = "reset" /\ lastCall.value # NULL
    /\ lastCall.value[1] # spanStyles.defaultStyle
    /\ "rotationX" \in lastCall.changed
    /\ spanStyles.rotationX = NULL
    /\ spanStyles.outlineWidth = lastCall.value[1].outlineThickness
    /\ spanStyles.outlineWidth # spanStyles.defaultStyle.outlineThickness
    /\ svgDefsElement # <<>>
    /\ spanStyles.nextFilterId = 1
    /\ DOMAIN fontSizeCache # {}
    /\ out # NULL

----------------------------------------------------------------------------
(* Claims about the animations of setStylesOnSpan (SpecTimeline) *)

\* Whether the rules of one text are the first rules of another
IsPrefix(text, other) ==
    /\ Len(text) <= Len(other)
    /\ SubSeq(other, 1, Len(text)) = text

\* The text nodes of the <style> element: one per setStylesOnSpan call so far
\* (calls counts these and the add calls), each the rules of the animations
\* added before it, so that an animation's rules are in every text node
\* appended since it was added; when no animation was added since the first
\* of k calls, the k text nodes all hold the rules of all the animations.
C16_StyleElementHoldsCopies ==
    LET nodes == animationStyleElement
        cssText == animationCollection.cssText
    IN  /\ Len(nodes) = calls - animationCollection.numAnimations
        /\ \A k \in 1..Len(nodes) : IsPrefix(nodes[k], cssText)
        /\ \A k \in 1..Len(nodes) : \A l \in k..Len(nodes) : IsPrefix(nodes[k], nodes[l])
        /\ (nodes # <<>> /\ Len(nodes[1]) = Len(cssText)) =>
               \A k \in 1..Len(nodes) : nodes[k] = cssText

\* A setStylesOnSpan step leaves the collection as it is, appends its whole
\* cssText to the <style> element and sets its animationStyle on the span;
\* an add step leaves the <style> element as it is
C16_ResolveStep ==
    IF lastCall'.op = "setStylesOnSpan" /\ calls' # calls
    THEN /\ animationCollection' = animationCollection
         /\ animationStyleElement' =
                Append(animationStyleElement, animationCollection.cssText)
         /\ out'.animation = animationCollection.animationStyle
    ELSE animationStyleElement' = animationStyleElement

\* C16: setStylesOnSpan leaves the collection's names, animation style, delays
\* and counter unchanged and on every call appends the collection's whole
\* cssText to the <style> element; after k calls with the same n animations
\* the element holds k copies of the rules of each, and the rules of an
\* animation added before one call are appended again by every later call.
C16_CssTextAppendedOnEveryCall ==
    [] C16_StyleElementHoldsCopies /\ [][C16_ResolveStep]_vars

\* C16 witness: two animations, one added before the first of three
\* setStylesOnSpan calls and one after it; the rules of the first are in the
\* <style> element three times, those of the second twice.
C16_Witness_ThreeCopies ==
    /\ Resolved
    /\ animationCollection.numAnimations = 2
    /\ Len(animationStyleElement) = 3
    /\ Len(animationStyleElement[1]) = 2
    /\ animationStyleElement[2] = animationCollection.cssText
    /\ animationStyleElement[3] = animationCollection.cssText
    /\ animationStyleElement[3][1] = animationStyleElement[1][1]
    /\ Len(out.animation) = 3

====
